---- MODULE Spec2Model ----
(***************************************************************************)
(* Translation store of i18nco (I18nControl), its resolver and the locale  *)
(* matcher.  Python strings are sequences of one-character strings, so     *)
(* that split and startswith are computed as the code computes them.       *)
(***************************************************************************)
EXTENDS Integers, Sequences, FiniteSets, TLC

(* ----------------------------------------------------------------------- *)
(* Locale codes: constants.py                                               *)
(* ----------------------------------------------------------------------- *)
en_US == <<"e", "n", "_", "U", "S">>
en_GB == <<"e", "n", "_", "G", "B">>
zh_CN == <<"z", "h", "_", "C", "N">>
zh_HK == <<"z", "h", "_", "H", "K">>
ru_RU == <<"r", "u", "_", "R", "U">>
ja_JP == <<"j", "a", "_", "J", "P">>
ko_KR == <<"k", "o", "_", "K", "R">>
ko_KP == <<"k", "o", "_", "K", "P">>
am_ET == <<"a", "m", "_", "E", "T">>

(* Writing-system tables, each in the insertion order of its dict literal;  *)
(* a locale code that only its table uses is named inside the table.        *)
LATIN_ALPHABET_TABLE ==
    LET es_ES == <<"e", "s", "_", "E", "S">>
        fr_FR == <<"f", "r", "_", "F", "R">>
        de_DE == <<"d", "e", "_", "D", "E">>
        it_IT == <<"i", "t", "_", "I", "T">>
        pt_PT == <<"p", "t", "_", "P", "T">>
        pt_BR == <<"p", "t", "_", "B", "R">>
        en_SG == <<"e", "n", "_", "S", "G">>
        ms_SG == <<"m", "s", "_", "S", "G">>
        en_MY == <<"e", "n", "_", "M", "Y">>
        ms_MY == <<"m", "s", "_", "M", "Y">>
    IN  << en_US, en_GB, es_ES, fr_FR, de_DE, it_IT, pt_PT, pt_BR, en_SG, ms_SG, en_MY, ms_MY >>

CHINESE_CHARACTERS_TABLE ==
    LET zh_MO == <<"z", "h", "_", "M", "O">>
        zh_TW == <<"z", "h", "_", "T", "W">>
        zh_SG == <<"z", "h", "_", "S", "G">>
        zh_MY == <<"z", "h", "_", "M", "Y">>
    IN  << zh_CN, zh_HK, zh_MO, zh_TW, zh_SG, zh_MY, ja_JP, ko_KR, ko_KP >>

CYRILLIC_ALPHABET_TABLE ==
    LET uk_UA == <<"u", "k", "_", "U", "A">>
        bg_BG == <<"b", "g", "_", "B", "G">>
        sr_RS == <<"s", "r", "_", "R", "S">>
    IN  << ru_RU, uk_UA, bg_BG, sr_RS >>

ARABIC_ALPHABET_TABLE ==
    LET ar_SA == <<"a", "r", "_", "S", "A">>
        ar_EG == <<"a", "r", "_", "E", "G">>
        fa_IR == <<"f", "a", "_", "I", "R">>
        ur_PK == <<"u", "r", "_", "P", "K">>
    IN  << ar_SA, ar_EG, fa_IR, ur_PK >>

DEVANAGARI_ALPHABET_TABLE ==
    LET hi_IN == <<"h", "i", "_", "I", "N">>
        ne_NP == <<"n", "e", "_", "N", "P">>
    IN  << hi_IN, ne_NP >>

GREEK_ALPHABET_TABLE ==
    LET el_GR == <<"e", "l", "_", "G", "R">>
        el_CY == <<"e", "l", "_", "C", "Y">>
    IN  << el_GR, el_CY >>

JAPANESE_KANA_TABLE == << ja_JP >>

HANGUL_TABLE == << ko_KR, ko_KP >>

THAI_ALPHABET_TABLE ==
    LET th_TH == <<"t", "h", "_", "T", "H">>
    IN  << th_TH >>

HEBREW_ALPHABET_TABLE ==
    LET he_IL == <<"h", "e", "_", "I", "L">>
        yi_001 == <<"y", "i", "_", "0", "0", "1">>
    IN  << he_IL, yi_001 >>

KHMER_ALPHABET_TABLE ==
    LET km_KH == <<"k", "m", "_", "K", "H">>
    IN  << km_KH >>

ETHIOPIC_OR_GE_EZ_SCRIPT_TABLE ==
    LET ti_ER == <<"t", "i", "_", "E", "R">>
        et_EE == <<"e", "t", "_", "E", "E">>
    IN  << am_ET, ti_ER, et_EE >>

(* WRITING_SYSTEM_TABLE in dict-iteration order; the Georgian and Tamil    *)
(* tables are not part of it.                                               *)
WRITING_SYSTEM_TABLE ==
    << LATIN_ALPHABET_TABLE, CHINESE_CHARACTERS_TABLE, CYRILLIC_ALPHABET_TABLE,
       ARABIC_ALPHABET_TABLE, DEVANAGARI_ALPHABET_TABLE, GREEK_ALPHABET_TABLE,
       JAPANESE_KANA_TABLE, HANGUL_TABLE, THAI_ALPHABET_TABLE,
       HEBREW_ALPHABET_TABLE, KHMER_ALPHABET_TABLE,
       ETHIOPIC_OR_GE_EZ_SCRIPT_TABLE >>

(* utils.py imports this list from constants.py, which does not define it; *)
(* the matcher's documented tiers end with the writing-system tier, so the *)
(* list contributes no candidate.                                           *)
UNITED_NATIONS_LANGUAGE_LIST == << >>

(* ----------------------------------------------------------------------- *)
(* Python values passed as arguments and returned as results                *)
(* ----------------------------------------------------------------------- *)
None == [t |-> "none", v |-> << >>]
S(s) == [t |-> "str", v |-> s]
PyList(xs) == [t |-> "list", v |-> xs]
PyInt == [t |-> "int", v |-> << >>]
TypeError == [t |-> "TypeError", v |-> << >>]
NoResult == [t |-> "noresult", v |-> << >>]

(* isinstance(x, LocaleCode) and isinstance(x, TextKey): both are str.      *)
IsStr(x) == x.t = "str"
IsNone(x) == x.t = "none"

(* ----------------------------------------------------------------------- *)
(* str helpers                                                              *)
(* ----------------------------------------------------------------------- *)
InSeq(x, xs) == \E i \in 1..Len(xs) : xs[i] = x

startswith(s, p) == Len(p) <= Len(s) /\ SubSeq(s, 1, Len(p)) = p

RECURSIVE split(_, _)
split(s, sep) ==
    IF ~InSeq(sep, s) THEN << s >>
    ELSE LET i == CHOOSE j \in 1..Len(s) :
                      s[j] = sep /\ \A m \in 1..(j - 1) : s[m] # sep
         IN  << SubSeq(s, 1, i - 1) >> \o split(SubSeq(s, i + 1, Len(s)), sep)

(* First element of xs satisfying P, as an optional value.                  *)
FirstWhere(xs, P(_)) ==
    IF \E i \in 1..Len(xs) : P(xs[i])
    THEN LET i == CHOOSE j \in 1..Len(xs) :
                      P(xs[j]) /\ \A m \in 1..(j - 1) : ~P(xs[m])
         IN  S(xs[i])
    ELSE None

(* ----------------------------------------------------------------------- *)
(* utils.match_best_locale                                                  *)
(* ----------------------------------------------------------------------- *)
(* Tier 3: tables are visited in table order; inside a table that holds    *)
(* the target, the table's own keys are visited in table order.             *)
RECURSIVE WritingSystemMatch(_, _, _)

(* Variant: inside the table, the candidates of available are visited in   *)
(* the order of available.                                                  *)
WritingSystemMatch_AvailableOrder(target, available, i) ==
    IF i > Len(WRITING_SYSTEM_TABLE) THEN None
    ELSE LET table == WRITING_SYSTEM_TABLE[i]
             hit == FirstWhere(available, LAMBDA c : InSeq(c, table))
         IN  IF InSeq(target, table) /\ IsStr(hit) THEN hit
             ELSE WritingSystemMatch(target, available, i + 1)

WritingSystemMatch(target, available, i) ==
    IF i > Len(WRITING_SYSTEM_TABLE) THEN None
    ELSE LET table == WRITING_SYSTEM_TABLE[i]
             hit == FirstWhere(table, LAMBDA c : InSeq(c, available))
         IN  IF InSeq(target, table) /\ IsStr(hit) THEN hit
             ELSE WritingSystemMatch(target, available, i + 1)

(* Tier 4: languages in list order, candidates in the order of available.  *)
RECURSIVE UnitedNationsMatch(_, _)

(* Variant: the last tier falls back to the first candidate.                *)
UnitedNationsMatch_FirstAvailable(available, i) ==
    IF Len(available) > 0 THEN S(available[1]) ELSE None

UnitedNationsMatch(available, i) ==
    IF i > Len(UNITED_NATIONS_LANGUAGE_LIST) THEN None
    ELSE LET hit == FirstWhere(available,
                        LAMBDA c : startswith(c, UNITED_NATIONS_LANGUAGE_LIST[i]))
         IN  IF IsStr(hit) THEN hit ELSE UnitedNationsMatch(available, i + 1)

(* Variant: the language-code tier is tried before the exact tier.          *)
match_best_locale_PrefixFirst(target, available) ==
    LET language_code == split(target, "_")[1]
        byLanguage == FirstWhere(available,
                          LAMBDA c : startswith(c, language_code))
        byWriting == WritingSystemMatch(target, available, 1)
    IN  IF IsStr(byLanguage) THEN byLanguage
        ELSE IF InSeq(target, available) THEN S(target)
        ELSE IF IsStr(byWriting) THEN byWriting
        ELSE UnitedNationsMatch(available, 1)

match_best_locale(target, available) ==
    IF InSeq(target, available) THEN S(target)
    ELSE LET language_code == split(target, "_")[1]
             byLanguage == FirstWhere(available,
                               LAMBDA c : startswith(c, language_code))
             byWriting == WritingSystemMatch(target, available, 1)
         IN  IF IsStr(byLanguage) THEN byLanguage
             ELSE IF IsStr(byWriting) THEN byWriting
             ELSE UnitedNationsMatch(available, 1)

(* ----------------------------------------------------------------------- *)
(* Bounds and input sets                                                    *)
(* ----------------------------------------------------------------------- *)
MaxListLen == 2
MaxCalls == 3

(* The attribute names met on the Internationalization and I18nControl     *)
(* objects.                                                                 *)
Name ==
    [ ctrl |->
          <<"c", "t", "r", "l">>,
      i18n |->
          <<"i", "1", "8", "n">>,
      module |->
          <<"_", "_", "m", "o", "d", "u", "l", "e", "_", "_">>,
      first_locale |->
          <<"f", "i", "r", "s", "t", "_", "l", "o", "c", "a", "l", "e">>,
      second_locale |->
          <<"s", "e", "c", "o", "n", "d", "_", "l", "o", "c", "a", "l", "e">>,
      doc |->
          <<"_", "_", "d", "o", "c", "_", "_">>,
      dict |->
          <<"_", "_", "d", "i", "c", "t", "_", "_">>,
      class |->
          <<"_", "_", "c", "l", "a", "s", "s", "_", "_">>,
      attribute_overload |->
          <<"_", "a", "t", "t", "r", "i", "b", "u", "t", "e", "_", "o", "v", "e", "r", "l", "o", "a", "d">>,
      lock |->
          <<"_", "l", "o", "c", "k">>,
      available_locales |->
          <<"a", "v", "a", "i", "l", "a", "b", "l", "e", "_", "l", "o", "c", "a", "l", "e", "s">>,
      ctrl_get_locale |->
          <<"c", "t", "r", "l", "_", "g", "e", "t", "_", "l", "o", "c", "a", "l", "e">> ]

(* Internationalization.__module__ for the package layout of setup.py       *)
MODULE_NAME == <<"i", "1", "8", "n", "c", "o", ".", "i", "n", "t", "e", "r", "n", "a", "t", "i", "o", "n", "a", "l", "i", "z", "a", "t", "i", "o", "n">>

Key_a == <<"a">>
Key_module == Name.module
Key_ctrl_i18n_a == <<"c", "t", "r", "l", ".", "i", "1", "8", "n", ".", "a">>

Text_x == <<"x">>
Text_y == <<"y">>

Locales == {en_US, zh_CN, zh_HK}
FirstLanguages == {zh_CN, ja_JP}
SecondLanguages == {en_US, zh_CN}
Keys == {Key_a, Key_ctrl_i18n_a}
QueryKeys == Keys \cup {Key_module}
ListLocales == {zh_CN, zh_HK}
Texts == {Text_x, Text_y}

(* ----------------------------------------------------------------------- *)
(* The table: a dict LocaleCode -> dict TextKey -> str.  The outer dict is *)
(* kept in insertion order because available_locales exposes that order.   *)
(* ----------------------------------------------------------------------- *)
EmptyBucket == [k \in {} |-> << >>]

HasLocale(tbl, L) == \E i \in 1..Len(tbl) : tbl[i].locale = L

BucketOf(tbl, L) ==
    IF HasLocale(tbl, L)
    THEN tbl[CHOOSE i \in 1..Len(tbl) : tbl[i].locale = L].bucket
    ELSE EmptyBucket

(* self.__table_translation.get(L, {}).get(k, None)                         *)
Lookup(tbl, L, k) ==
    IF k \in DOMAIN BucketOf(tbl, L) THEN S(BucketOf(tbl, L)[k]) ELSE None

(* Variant: the most recently inserted locale is left out.                  *)
available_locales_DropsLast(tbl) == [i \in 1..(Len(tbl) - 1) |-> tbl[i].locale]

available_locales(tbl) == [i \in 1..Len(tbl) |-> tbl[i].locale]

(* ----------------------------------------------------------------------- *)
(* Values met while _attribute_overload walks the object graph              *)
(* ----------------------------------------------------------------------- *)
Str(s) == [t |-> "str", v |-> s, kw |-> << >>]
I18nString(s, keywords) == [t |-> "I18nString", v |-> s, kw |-> keywords]
Obj(class) == [t |-> class, v |-> << >>, kw |-> << >>]
AttributeError == Obj("AttributeError")

IsInstanceStr(val) == val.t \in {"str", "I18nString"}

(* object.__getattribute__ on the Internationalization instance: its one   *)
(* instance attribute ctrl, then the class attributes.                      *)
object_getattribute(name) ==
    IF name = Name.ctrl THEN Obj("I18nControl")
    ELSE IF name = Name.module THEN Str(MODULE_NAME)
    ELSE IF name \in {Name.attribute_overload, Name.dict, Name.class, Name.doc}
         THEN Obj("object")
    ELSE AttributeError

(* Attributes every str carries (here: the ones that are not strings).      *)
StrAttributes == {Name.class}

RECURSIVE translation(_, _, _)
RECURSIVE getattr(_, _, _)
RECURSIVE Resolve(_, _, _, _)

(* Internationalization._attribute_overload                                 *)
attribute_overload(st, target) ==
    LET names == split(target, ".")
        result == Resolve(st, names, 2, object_getattribute(names[1]))
    IN  IF IsInstanceStr(result) THEN result.v ELSE target

(* The loop of _attribute_overload from its second segment on; an          *)
(* AttributeError leaves the loop.                                          *)
Resolve(st, names, i, result) ==
    IF result = AttributeError \/ i > Len(names) THEN result
    ELSE Resolve(st, names, i + 1, getattr(result, names[i], st))

(* Variant: the child segment alone is the key.                             *)
getattr_DropsKeywords(val, name, st) ==
    CASE val.t = "Internationalization" ->
            IF startswith(name, << "_" >>) \/ name = Name.ctrl
            THEN object_getattribute(name)
            ELSE I18nString(translation(st, name, None), name)
      [] val.t = "I18nControl" ->
            IF name = Name.i18n THEN Obj("Internationalization")
            ELSE IF name = Name.first_locale THEN Str(st.first)
            ELSE IF name = Name.second_locale THEN Str(st.second)
            ELSE IF name \in {Name.lock, Name.available_locales, Name.class}
                 THEN Obj("object")
            ELSE AttributeError
      [] val.t = "I18nString" ->
            IF name \in StrAttributes THEN Obj("object")
            ELSE I18nString(translation(st, name, None), name)
      [] val.t = "str" ->
            IF name \in StrAttributes THEN Obj("object") ELSE AttributeError
      [] OTHER -> AttributeError

(* getattr(result, name) by the class of result                             *)
getattr(val, name, st) ==
    CASE val.t = "Internationalization" ->
            (* Internationalization.__getattribute__ *)
            IF startswith(name, << "_" >>) \/ name = Name.ctrl
            THEN object_getattribute(name)
            ELSE I18nString(translation(st, name, None), name)
      [] val.t = "I18nControl" ->
            IF name = Name.i18n THEN Obj("Internationalization")
            ELSE IF name = Name.first_locale THEN Str(st.first)
            ELSE IF name = Name.second_locale THEN Str(st.second)
            ELSE IF name \in {Name.lock, Name.available_locales, Name.class}
                 THEN Obj("object")
            ELSE AttributeError
      [] val.t = "I18nString" ->
            (* I18nString.__getattr__, reached when str has no such name *)
            IF name \in StrAttributes THEN Obj("object")
            ELSE LET target == IF val.kw = << >> THEN name
                               ELSE val.kw \o << "." >> \o name
                 IN  I18nString(translation(st, target, None), target)
      [] val.t = "str" ->
            IF name \in StrAttributes THEN Obj("object") ELSE AttributeError
      [] OTHER -> AttributeError

(* I18nControl.translation: the text of the returned I18nString             *)
translation(st, key, locale) ==
    LET target_locale == IF IsNone(locale) THEN st.first ELSE locale.v
        first_try == Lookup(st.table, target_locale, key)
        result == IF IsNone(first_try) /\ IsNone(locale)
                  THEN Lookup(st.table, st.second, key)
                  ELSE first_try
    IN  IF IsNone(result) THEN attribute_overload(st, key) ELSE result.v

(* ----------------------------------------------------------------------- *)
(* I18nControl.set_translation                                              *)
(* ----------------------------------------------------------------------- *)
DeleteBucket(tbl, L) == SelectSeq(tbl, LAMBDA e : e.locale # L)

DeleteEntry(tbl, L, k) ==
    [i \in 1..Len(tbl) |->
        IF tbl[i].locale = L
        THEN [locale |-> L,
              bucket |-> [j \in DOMAIN tbl[i].bucket \ {k} |-> tbl[i].bucket[j]]]
        ELSE tbl[i]]

(* Variant: an existing entry keeps its text (dict.setdefault).              *)
PutEntry_KeepsOld(tbl, L, k, text) ==
    LET withBucket == IF HasLocale(tbl, L) THEN tbl
                      ELSE Append(tbl, [locale |-> L, bucket |-> EmptyBucket])
    IN  [i \in 1..Len(withBucket) |->
            IF withBucket[i].locale = L
            THEN [locale |-> L,
                  bucket |-> [j \in DOMAIN withBucket[i].bucket \cup {k} |->
                                 IF j \in DOMAIN withBucket[i].bucket
                                 THEN withBucket[i].bucket[j] ELSE text]]
            ELSE withBucket[i]]

PutEntry(tbl, L, k, text) ==
    LET withBucket == IF HasLocale(tbl, L) THEN tbl
                      ELSE Append(tbl, [locale |-> L, bucket |-> EmptyBucket])
    IN  [i \in 1..Len(withBucket) |->
            IF withBucket[i].locale = L
            THEN [locale |-> L,
                  bucket |-> [j \in DOMAIN withBucket[i].bucket \cup {k} |->
                                 IF j = k THEN text ELSE withBucket[i].bucket[j]]]
            ELSE withBucket[i]]

(* The body under the lock, for one locale (a str or None).                 *)
SetOne(tbl, first, locale, key, text) ==
    LET L == IF IsNone(locale) THEN first ELSE locale.v
    IN  IF IsNone(key) THEN DeleteBucket(tbl, L)
        ELSE IF IsNone(text) THEN DeleteEntry(tbl, L, key.v)
        ELSE PutEntry(tbl, L, key.v, text.v)

RECURSIVE set_translation(_, _, _, _, _)
RECURSIVE SetEach(_, _, _, _, _, _)

(* Returns the table left behind and whether TypeError was raised.           *)
set_translation(tbl, first, locale, key, text) ==
    IF ~IsNone(key) /\ ~IsStr(key) THEN [table |-> tbl, raised |-> TRUE]
    ELSE IF ~IsNone(text) /\ ~IsStr(text) THEN [table |-> tbl, raised |-> TRUE]
    ELSE IF locale.t = "list" THEN SetEach(tbl, first, locale.v, 1, key, text)
    ELSE IF ~IsNone(locale) /\ ~IsStr(locale) THEN [table |-> tbl, raised |-> TRUE]
    ELSE [table |-> SetOne(tbl, first, locale, key, text), raised |-> FALSE]

(* Variant: the loop returns after its first iteration.                      *)
SetEach_FirstOnly(tbl, first, codes, i, key, text) ==
    IF i > Len(codes) THEN [table |-> tbl, raised |-> FALSE]
    ELSE set_translation(tbl, first, codes[i], key, text)

(* for locale_code in locale: self.set_translation(locale_code, key, text)  *)
SetEach(tbl, first, codes, i, key, text) ==
    IF i > Len(codes) THEN [table |-> tbl, raised |-> FALSE]
    ELSE LET r == set_translation(tbl, first, codes[i], key, text)
         IN  IF r.raised THEN r
             ELSE SetEach(r.table, first, codes, i + 1, key, text)

(* ----------------------------------------------------------------------- *)
(* I18nControl.set_locale                                                   *)
(* ----------------------------------------------------------------------- *)
(* Variant: the primary is not removed from the candidates.                 *)
OtherLocales_KeepsPrimary(tbl, first) == available_locales(tbl)

(* [x for x in self.available_locales if x != self.__first_locale]          *)
OtherLocales(tbl, first) == SelectSeq(available_locales(tbl), LAMBDA x : x # first)

(* Variant: the swap-on-conflict of BaseI18n.con_set_locale.                *)
set_locale_Swap(st, first_language, second_language, auto_adjust) ==
    IF IsStr(first_language) /\ first_language.v = st.second
    THEN [first |-> st.second, second |-> st.first, raised |-> FALSE]
    ELSE LET new_first == IF IsStr(first_language) THEN first_language.v
                          ELSE st.first
             best_locale == match_best_locale(new_first,
                                              OtherLocales(st.table, new_first))
         IN  [first |-> new_first,
              second |-> IF IsStr(second_language) THEN second_language.v
                         ELSE IF auto_adjust
                              THEN IF IsNone(best_locale) THEN en_US
                                   ELSE best_locale.v
                         ELSE st.second,
              raised |-> FALSE]

(* Returns the preference pair left behind and whether TypeError was raised. *)
set_locale(st, first_language, second_language, auto_adjust) ==
    IF \/ ~IsNone(first_language) /\ ~IsStr(first_language)
       \/ ~IsNone(second_language) /\ ~IsStr(second_language)
    THEN [first |-> st.first, second |-> st.second, raised |-> TRUE]
    ELSE LET new_first == IF IsStr(first_language) THEN first_language.v
                          ELSE st.first
             best_locale == match_best_locale(new_first,
                                              OtherLocales(st.table, new_first))
         IN  [first |-> new_first,
              second |-> IF IsStr(second_language) THEN second_language.v
                         ELSE IF auto_adjust
                              THEN IF IsNone(best_locale) THEN en_US
                                   ELSE best_locale.v
                         ELSE st.second,
              raised |-> FALSE]

(* ----------------------------------------------------------------------- *)
(* State                                                                    *)
(* ----------------------------------------------------------------------- *)
VARIABLES table_translation, first_locale, second_locale, call, ncalls, fcall,
          lock, threads

vars == << table_translation, first_locale, second_locale, call, ncalls, fcall,
           lock, threads >>

store == [table |-> table_translation, first |-> first_locale,
          second |-> second_locale]

NoCall == [op |-> "none", locale |-> None, key |-> None, text |-> None,
           first_language |-> None, second_language |-> None,
           auto_adjust |-> TRUE, result |-> NoResult]

(* The call of a module-level function or of a loader, and its result: no  *)
(* such call is made while the store operations below are explored.         *)
NoFcall == [fn |-> "none"]

(* self._lock = threading.RLock(): the thread that owns it (0: nobody) and  *)
(* how many times that thread has acquired it.                              *)
NoLock == [owner |-> 0, count |-> 0]

(* The threads that call into the store.                                    *)
Threads == {1, 2}

(* A thread outside every call: pc is its position, c its call with the     *)
(* running result, local the locale it has read, seen the store it found    *)
(* when it took the lock.                                                   *)
NoThread ==
    [pc |-> "idle", c |-> NoCall, local |-> None,
     seen |-> [table |-> << >>, first |-> en_US, second |-> en_US]]

(* I18nControl.__init__                                                     *)
Init ==
    /\ lock = NoLock
    /\ threads = [t \in Threads |-> NoThread]
    /\ table_translation = << >>
    /\ first_locale = en_US
    /\ second_locale = en_US
    /\ call = NoCall
    /\ ncalls = 0
    /\ fcall = NoFcall

(* ----------------------------------------------------------------------- *)
(* Inputs                                                                   *)
(* ----------------------------------------------------------------------- *)
SeqsUpTo(X, n) == UNION {[1..m -> X] : m \in 0..n}

LocaleArgs == {None} \cup {S(L) : L \in Locales}
LocaleListArgs == {PyList(xs) : xs \in SeqsUpTo({S(L) : L \in ListLocales}, MaxListLen)}
KeyArgs == {None} \cup {S(k) : k \in Keys}
TextArgs == {None} \cup {S(x) : x \in Texts}
(* With a list: delete the buckets, delete an entry, or store a text.         *)
ListKeyTextArgs == { << None, None >>, << S(Key_a), None >>, << S(Key_a), S(Text_x) >> }
QueryKeyArgs == {S(k) : k \in QueryKeys}
FirstLanguageArgs == {None} \cup {S(L) : L \in FirstLanguages}
SecondLanguageArgs == {None} \cup {S(L) : L \in SecondLanguages}

(* ----------------------------------------------------------------------- *)
(* Operations                                                               *)
(* ----------------------------------------------------------------------- *)
SetTranslation(locale, key, text) ==
    LET r == set_translation(table_translation, first_locale, locale, key, text)
    IN  /\ ncalls < MaxCalls
        /\ table_translation' = r.table
        /\ call' = [NoCall EXCEPT !.op = "set_translation", !.locale = locale,
                                  !.key = key, !.text = text,
                                  !.result = IF r.raised THEN TypeError ELSE None]
        /\ ncalls' = ncalls + 1
        /\ UNCHANGED << first_locale, second_locale, fcall, lock, threads >>

Translation(key, locale) ==
    /\ ncalls < MaxCalls
    /\ call' = [NoCall EXCEPT !.op = "translation", !.key = key, !.locale = locale,
                              !.result =
                                  IF ~IsStr(key) THEN TypeError
                                  ELSE IF ~IsNone(locale) /\ ~IsStr(locale) THEN TypeError
                                  ELSE S(translation(store, key.v, locale))]
    /\ ncalls' = ncalls + 1
    /\ UNCHANGED << table_translation, first_locale, second_locale, fcall, lock, threads >>

AvailableLocales ==
    /\ ncalls < MaxCalls
    /\ call' = [NoCall EXCEPT !.op = "available_locales",
                              !.result =
                                  PyList([i \in 1..Len(table_translation) |->
                                             S(available_locales(table_translation)[i])])]
    /\ ncalls' = ncalls + 1
    /\ UNCHANGED << table_translation, first_locale, second_locale, fcall, lock, threads >>

SetLocale(first_language, second_language, auto_adjust) ==
    LET r == set_locale(store, first_language, second_language, auto_adjust)
    IN  /\ ncalls < MaxCalls
        /\ first_locale' = r.first
        /\ second_locale' = r.second
        /\ call' = [NoCall EXCEPT !.op = "set_locale",
                                  !.first_language = first_language,
                                  !.second_language = second_language,
                                  !.auto_adjust = auto_adjust,
                                  !.result = IF r.raised THEN TypeError ELSE None]
        /\ ncalls' = ncalls + 1
        /\ UNCHANGED << table_translation, fcall, lock, threads >>

Next ==
    \/ \E locale \in LocaleArgs, key \in KeyArgs, text \in TextArgs :
           SetTranslation(locale, key, text)
    \/ \E locale \in LocaleListArgs, kt \in ListKeyTextArgs :
           SetTranslation(locale, kt[1], kt[2])
    \/ \E key \in QueryKeyArgs, locale \in LocaleArgs : Translation(key, locale)
    \/ AvailableLocales
    \/ \E first_language \in FirstLanguageArgs, second_language \in SecondLanguageArgs,
          auto_adjust \in BOOLEAN :
           SetLocale(first_language, second_language, auto_adjust)

Spec == Init /\ [][Next]_vars

(* ----------------------------------------------------------------------- *)
(* Properties                                                               *)
(* ----------------------------------------------------------------------- *)
HasEntry(tbl, L) == DOMAIN BucketOf(tbl, L) # {}

Returned == call.result.t \notin {"TypeError", "noresult"}

(* The locales a set_translation call with this locale argument works on.   *)
Addressed(locale, first) ==
    IF IsStr(locale) THEN {locale.v}
    ELSE IF IsNone(locale) THEN {first}
    ELSE {IF IsNone(locale.v[i]) THEN first ELSE locale.v[i].v :
              i \in 1..Len(locale.v)}

(* C1: translation(k) with no explicit locale returns the text stored at    *)
(* (primary, k) if there is one, else the text stored at (secondary, k) if *)
(* there is one, else k itself.                                             *)
C1_PrimarySecondaryKey ==
    (call.op = "translation" /\ IsNone(call.locale) /\ Returned) =>
        LET k == call.key.v
            atFirst == Lookup(table_translation, first_locale, k)
            atSecond == Lookup(table_translation, second_locale, k)
        IN  call.result.v = IF IsStr(atFirst) THEN atFirst.v
                            ELSE IF IsStr(atSecond) THEN atSecond.v
                            ELSE k

(* C2: translation(k, L) with an explicit locale L consults only the bucket *)
(* of L: with no entry at (L, k) the result is k itself, whatever the      *)
(* primary and secondary buckets hold.                                      *)
C2_ExplicitLocaleOnly ==
    (call.op = "translation" /\ IsStr(call.locale) /\ Returned) =>
        LET k == call.key.v
            atLocale == Lookup(table_translation, call.locale.v, k)
        IN  call.result.v = IF IsStr(atLocale) THEN atLocale.v ELSE k

(* C3: after set_translation(L, k, v), translation(k, L) returns v; and a  *)
(* text stored at (L, k) is still what translation(k, L) returns after any *)
(* step that is not a set_translation on L with key k or with no key.       *)
C3_AfterSet ==
    (call.op = "set_translation" /\ IsStr(call.locale) /\ IsStr(call.key)
        /\ IsStr(call.text) /\ Returned) =>
        translation(store, call.key.v, call.locale) = call.text.v

C3_Keeps ==
    \A i \in 1..Len(table_translation) :
        \A k \in DOMAIN table_translation[i].bucket :
            LET L == table_translation[i].locale
                touched == /\ call'.op = "set_translation"
                           /\ (IsNone(call'.key) \/ call'.key = S(k))
                           /\ L \in Addressed(call'.locale, first_locale)
            IN  ~touched =>
                    translation(store', k, S(L)) = table_translation[i].bucket[k]

(* C3: both parts, the read after the write and the persistence of the text. *)
C3_LastWriteWins == []C3_AfterSet /\ [][C3_Keeps]_vars

C3_Witness ==
    /\ call.op = "set_translation"
    /\ call.locale = S(zh_CN) /\ call.key = S(Key_a) /\ call.text = S(Text_y)
    /\ Lookup(table_translation, zh_CN, Key_a) = S(Text_y)
    /\ Lookup(table_translation, en_US, Key_a) = S(Text_x)

(* C4: after set_translation(L, k, None), translation(k, L) returns k       *)
(* itself.                                                                  *)
C4_DeletedGivesKey ==
    (call.op = "set_translation" /\ IsStr(call.locale) /\ IsStr(call.key)
        /\ IsNone(call.text) /\ Returned) =>
        translation(store, call.key.v, call.locale) = call.key.v

(* C5: after set_translation(L, None, t), L is not among the available     *)
(* locales and translation(k, L) returns k for every k.                     *)
C5_BucketRemoved ==
    (call.op = "set_translation" /\ IsStr(call.locale) /\ IsNone(call.key)
        /\ Returned) =>
        /\ ~InSeq(call.locale.v, available_locales(table_translation))
        /\ \A k \in QueryKeys : translation(store, k, call.locale) = k

(* C6: set_translation with a list of locales does to every listed locale  *)
(* what the call with that one locale does: with a key and a text, every   *)
(* translation(k, Li) returns the text; with a key and no text, no listed  *)
(* locale keeps an entry for the key; with no key, no listed locale keeps  *)
(* a bucket.                                                                *)
C6_ListAppliesToEach ==
    (call.op = "set_translation" /\ call.locale.t = "list" /\ Returned) =>
        \A i \in 1..Len(call.locale.v) :
            LET Li == call.locale.v[i]
            IN  IsStr(Li) =>
                    IF IsNone(call.key)
                    THEN ~HasLocale(table_translation, Li.v)
                    ELSE IF IsNone(call.text)
                    THEN IsNone(Lookup(table_translation, Li.v, call.key.v))
                    ELSE translation(store, call.key.v, Li) = call.text.v

C6_Witness ==
    /\ call.op = "set_translation"
    /\ call.locale = PyList(<< S(zh_HK), S(zh_CN) >>)
    /\ call.key = S(Key_a) /\ call.text = S(Text_x)
    /\ available_locales(table_translation) = << zh_HK, zh_CN >>
    /\ Lookup(table_translation, zh_HK, Key_a) = S(Text_x)

(* C7: every locale returned by available_locales has at least one entry.   *)
C7_AvailableHaveEntries ==
    \A i \in 1..Len(table_translation) :
        HasEntry(table_translation, available_locales(table_translation)[i])

(* C8: every locale with at least one entry is among the locales returned  *)
(* by available_locales, and L is among them right after a successful      *)
(* set_translation(L, k, v).                                                *)
C8_EntriesAreAvailable ==
    /\ call.op = "available_locales" =>
           \A L \in Locales :
               HasEntry(table_translation, L) => InSeq(S(L), call.result.v)
    /\ (call.op = "set_translation" /\ IsStr(call.key) /\ IsStr(call.text)
           /\ Returned) =>
           \A L \in Addressed(call.locale, first_locale) :
               /\ HasEntry(table_translation, L)
               /\ InSeq(L, available_locales(table_translation))

C8_Witness ==
    /\ call.op = "available_locales"
    /\ Len(call.result.v) = 2
    /\ \A i \in 1..2 : HasEntry(table_translation, call.result.v[i].v)

(* C9: a set_locale call sets the primary to a supplied first language and *)
(* the secondary to a supplied second language, also when the two are      *)
(* equal; it keeps the primary when the first is None, keeps the secondary *)
(* when the second is None and auto_adjust is false, and never changes the *)
(* table.                                                                   *)
C9_Step ==
    (call'.op = "set_locale" /\ call'.result = None) =>
        /\ table_translation' = table_translation
        /\ IsStr(call'.first_language) => first_locale' = call'.first_language.v
        /\ IsNone(call'.first_language) => first_locale' = first_locale
        /\ IsStr(call'.second_language) => second_locale' = call'.second_language.v
        /\ (IsNone(call'.second_language) /\ ~call'.auto_adjust) =>
               second_locale' = second_locale

(* C9: every set_locale step changes exactly the supplied components.       *)
C9_SetLocaleFrame == [][C9_Step]_vars

C9_Witness ==
    /\ call.op = "set_locale"
    /\ call.first_language = S(zh_CN) /\ call.second_language = S(zh_CN)
    /\ first_locale = zh_CN /\ second_locale = zh_CN
    /\ HasEntry(table_translation, en_US)

(* C10: after set_locale with no second language and auto_adjust true, the *)
(* secondary is match_best_locale(primary, available locales other than    *)
(* the primary), or en_US when there is no match; with zh_CN and zh_HK     *)
(* available, set_locale(zh_CN) leaves zh_HK as the secondary.              *)
C10_AutoAdjust ==
    (call.op = "set_locale" /\ IsNone(call.second_language) /\ call.auto_adjust
        /\ Returned) =>
        LET others == SelectSeq([i \in 1..Len(table_translation) |->
                                    table_translation[i].locale],
                                LAMBDA x : x # first_locale)
            best == match_best_locale(first_locale, others)
        IN  /\ second_locale = IF IsNone(best) THEN en_US ELSE best.v
            /\ (call.first_language = S(zh_CN)
                   /\ HasLocale(table_translation, zh_CN)
                   /\ HasLocale(table_translation, zh_HK)) =>
                   second_locale = zh_HK

C10_Witness ==
    /\ call.op = "set_locale"
    /\ call.first_language = S(zh_CN) /\ IsNone(call.second_language)
    /\ call.auto_adjust
    /\ HasEntry(table_translation, zh_CN) /\ HasEntry(table_translation, zh_HK)
    /\ second_locale = zh_HK


(* ======================================================================= *)
(* utils.match_best_locale as a function of its two arguments               *)
(* ======================================================================= *)
MaxAvailable == 3

(* "" and "en" besides full locale codes                                    *)
MatchTargets == {<< >>, <<"e", "n">>, en_US, zh_HK, ja_JP, am_ET}
MatchCandidates == {en_GB, zh_CN, zh_HK, ru_RU}

InitMatch ==
    /\ lock = NoLock
    /\ threads = [t \in Threads |-> NoThread]
    /\ table_translation = << >>
    /\ first_locale = en_US
    /\ second_locale = en_US
    /\ call = NoCall
    /\ ncalls = 0
    /\ \E target \in MatchTargets :
       \E available \in SeqsUpTo(MatchCandidates, MaxAvailable) :
            fcall = [fn |-> "match_best_locale", target |-> target,
                     available |-> available, result |-> NoResult]

MatchBestLocale ==
    /\ fcall.fn = "match_best_locale"
    /\ fcall.result = NoResult
    /\ fcall' = [fcall EXCEPT
                    !.result = match_best_locale(fcall.target, fcall.available)]
    /\ UNCHANGED << table_translation, first_locale, second_locale, call, ncalls, lock, threads >>

NextMatch == MatchBestLocale

SpecMatch == InitMatch /\ [][NextMatch]_vars

MatchReturned == fcall.fn = "match_best_locale" /\ fcall.result # NoResult

(* The part of the target before its first "_", the whole target without.  *)
LanguagePart(target) ==
    IF \E j \in 1..Len(target) : target[j] = "_"
    THEN SubSeq(target, 1, (CHOOSE j \in 1..Len(target) :
                target[j] = "_" /\ \A m \in 1..(j - 1) : target[m] # "_") - 1)
    ELSE target

ExactTier(target, available) == \E i \in 1..Len(available) : available[i] = target

PrefixTier(target, available) ==
    \E i \in 1..Len(available) : startswith(available[i], LanguagePart(target))

SharedTable(target, available, i) ==
    /\ InSeq(target, WRITING_SYSTEM_TABLE[i])
    /\ \E j \in 1..Len(available) : InSeq(available[j], WRITING_SYSTEM_TABLE[i])

(* C11: a target that is in available is returned; otherwise, when some    *)
(* candidate starts with the language part of the target, the first such   *)
(* candidate in the order of available is returned.                        *)
C11_ExactThenPrefix ==
    MatchReturned =>
        LET t == fcall.target
            a == fcall.available
        IN  /\ ExactTier(t, a) => fcall.result = S(t)
            /\ (~ExactTier(t, a) /\ PrefixTier(t, a)) =>
                  \E i \in 1..Len(a) :
                      /\ startswith(a[i], LanguagePart(t))
                      /\ \A m \in 1..(i - 1) : ~startswith(a[m], LanguagePart(t))
                      /\ fcall.result = S(a[i])

(* The exact candidate wins over an earlier candidate of the same language. *)
C11_Witness ==
    /\ MatchReturned
    /\ Len(fcall.available) >= 2
    /\ fcall.available[2] = fcall.target
    /\ fcall.available[1] # fcall.target
    /\ startswith(fcall.available[1], LanguagePart(fcall.target))
    /\ fcall.result = S(fcall.target)

(* C12 as stated: without an exact or prefix match, the result is the      *)
(* first candidate, in the order of available, that is a key of the first   *)
(* writing-system table holding the target.                                *)
C12_AvailableOrder ==
    (/\ MatchReturned
     /\ ~ExactTier(fcall.target, fcall.available)
     /\ ~PrefixTier(fcall.target, fcall.available)) =>
        \A i \in 1..Len(WRITING_SYSTEM_TABLE) :
            (/\ InSeq(fcall.target, WRITING_SYSTEM_TABLE[i])
             /\ \A m \in 1..(i - 1) : ~InSeq(fcall.target, WRITING_SYSTEM_TABLE[m])) =>
                \A j \in 1..Len(fcall.available) :
                    (/\ InSeq(fcall.available[j], WRITING_SYSTEM_TABLE[i])
                     /\ \A m \in 1..(j - 1) :
                            ~InSeq(fcall.available[m], WRITING_SYSTEM_TABLE[i])) =>
                        fcall.result = S(fcall.available[j])

(* C12, amended: without an exact or prefix match, the result is the first *)
(* key, in the table's own order, that is in available, taken from the      *)
(* first table that holds the target and shares a key with available.       *)
C12_TableOrder ==
    (/\ MatchReturned
     /\ ~ExactTier(fcall.target, fcall.available)
     /\ ~PrefixTier(fcall.target, fcall.available)) =>
        \A i \in 1..Len(WRITING_SYSTEM_TABLE) :
            (/\ SharedTable(fcall.target, fcall.available, i)
             /\ \A m \in 1..(i - 1) : ~SharedTable(fcall.target, fcall.available, m)) =>
                \E j \in 1..Len(WRITING_SYSTEM_TABLE[i]) :
                    /\ InSeq(WRITING_SYSTEM_TABLE[i][j], fcall.available)
                    /\ \A m \in 1..(j - 1) :
                           ~InSeq(WRITING_SYSTEM_TABLE[i][m], fcall.available)
                    /\ fcall.result = S(WRITING_SYSTEM_TABLE[i][j])

(* The writing-system tier returns the second candidate although the first *)
(* candidate is a key of the same table.                                    *)
C12_Witness ==
    /\ MatchReturned
    /\ ~ExactTier(fcall.target, fcall.available)
    /\ ~PrefixTier(fcall.target, fcall.available)
    /\ Len(fcall.available) >= 2
    /\ fcall.available[1] # fcall.available[2]
    /\ fcall.result = S(fcall.available[2])
    /\ \E i \in 1..Len(WRITING_SYSTEM_TABLE) :
           /\ InSeq(fcall.target, WRITING_SYSTEM_TABLE[i])
           /\ InSeq(fcall.available[1], WRITING_SYSTEM_TABLE[i])
           /\ InSeq(fcall.available[2], WRITING_SYSTEM_TABLE[i])

C14_EmptyGivesNone ==
    (/\ MatchReturned
     /\ (fcall.target = << >> \/ fcall.available = << >>)) =>
        fcall.result = None

(* ======================================================================= *)
(* utils.decode_escape_sequences                                            *)
(* ======================================================================= *)
(* Characters are one-character strings.  Characters that have no notation *)
(* of their own are named by code point.                                    *)
CHR_NUL == "chr(0)"
CHR_BEL == "chr(7)"
CHR_BS == "chr(8)"
CHR_VT == "chr(11)"

(* The characters U+0020..U+007E, in code-point order:                      *)
ASCII_PRINTABLE == <<
    " ", "!", "\"", "#", "$", "%", "&", "'", "(", ")", "*", "+", ",", "-", ".", "/",
    "0", "1", "2", "3", "4", "5", "6", "7", "8", "9", ":", ";", "<", "=", ">", "?",
    "@", "A", "B", "C", "D", "E", "F", "G", "H", "I", "J", "K", "L", "M", "N", "O",
    "P", "Q", "R", "S", "T", "U", "V", "W", "X", "Y", "Z", "[", "\\", "]", "^", "_",
    "chr(96)", "a", "b", "c", "d", "e", "f", "g", "h", "i", "j", "k", "l", "m", "n", "o",
    "p", "q", "r", "s", "t", "u", "v", "w", "x", "y", "z", "{", "|", "}", "~" >>

MAX_CODE_POINT == 1114111

ValueError == [t |-> "ValueError", v |-> << >>]
OverflowError == [t |-> "OverflowError", v |-> << >>]

HEX_LOWER == <<"0", "1", "2", "3", "4", "5", "6", "7", "8", "9", "a", "b", "c", "d", "e", "f">>
HEX_UPPER == <<"0", "1", "2", "3", "4", "5", "6", "7", "8", "9", "A", "B", "C", "D", "E", "F">>

(* [0-9A-Fa-f]                                                              *)
IsHex(c) == InSeq(c, HEX_LOWER) \/ InSeq(c, HEX_UPPER)

HexVal(c) == (CHOOSE i \in 1..16 : HEX_LOWER[i] = c \/ HEX_UPPER[i] = c) - 1

(* int(digits, 16) for a non-empty run of hex digits                        *)
RECURSIVE HexInt(_)
HexInt(digits) ==
    IF Len(digits) = 0 THEN 0
    ELSE 16 * HexInt(SubSeq(digits, 1, Len(digits) - 1)) + HexVal(digits[Len(digits)])

(* chr(n) for 0 <= n <= 0x10FFFF                                            *)
Chr(n) ==
    IF n \in 32..126 THEN ASCII_PRINTABLE[n - 31]
    ELSE IF n = 0 THEN CHR_NUL
    ELSE IF n = 7 THEN CHR_BEL
    ELSE IF n = 8 THEN CHR_BS
    ELSE IF n = 9 THEN "\t"
    ELSE IF n = 10 THEN "\n"
    ELSE IF n = 11 THEN CHR_VT
    ELSE IF n = 12 THEN "\f"
    ELSE IF n = 13 THEN "\r"
    ELSE "chr(" \o ToString(n) \o ")"

(* chr(int(digits, 16)): int("", 16) raises ValueError, chr raises           *)
(* ValueError above 0x10FFFF and OverflowError above the C int range.        *)
ChrOfHex(digits) ==
    IF Len(digits) = 0 THEN ValueError
    ELSE IF Len(digits) = 8 /\ HexVal(digits[1]) >= 8 THEN OverflowError
    ELSE IF HexInt(digits) > MAX_CODE_POINT THEN ValueError
    ELSE S(<< Chr(HexInt(digits)) >>)

(* rest starts with the letter followed by n hex digits                     *)
HexEscape(rest, letter, n) ==
    /\ Len(rest) >= n + 1
    /\ rest[1] = letter
    /\ \A k \in 2..(n + 1) : IsHex(rest[k])

(* group(1) of ESCAPE_SEQUENCE_RE matched at the backslash text[i]; the      *)
(* empty string when the pattern does not match there ("." does not match   *)
(* a newline, and nothing matches at the end of the text).                  *)
EscapeAt(text, i) ==
    LET rest == SubSeq(text, i + 1, Len(text))
    IN  IF Len(rest) = 0 THEN << >>
        ELSE IF HexEscape(rest, "u", 4) THEN SubSeq(rest, 1, 5)
        ELSE IF HexEscape(rest, "U", 8) THEN SubSeq(rest, 1, 9)
        ELSE IF HexEscape(rest, "x", 2) THEN SubSeq(rest, 1, 3)
        ELSE IF rest[1] # "\n" THEN << rest[1] >>
        ELSE << >>

(* Variant: the pattern needs no backslash in front of the escape.          *)
MatchesAt_AnyCharacter(text, i) == EscapeAt(text, i) # << >>

MatchesAt(text, i) == text[i] = "\\" /\ EscapeAt(text, i) # << >>

(* Variant: only the seven common escapes are translated.                   *)
replace_escape_CommonOnly(escape) ==
    IF escape[1] \in {"u", "U", "x"} THEN ChrOfHex(SubSeq(escape, 2, Len(escape)))
    ELSE IF escape = <<"n">> THEN S(<<"\n">>)
    ELSE IF escape = <<"t">> THEN S(<<"\t">>)
    ELSE IF escape = <<"b">> THEN S(<< CHR_BS >>)
    ELSE IF escape = <<"r">> THEN S(<<"\r">>)
    ELSE IF escape = <<"f">> THEN S(<<"\f">>)
    ELSE IF escape = <<"a">> THEN S(<< CHR_BEL >>)
    ELSE IF escape = <<"v">> THEN S(<< CHR_VT >>)
    ELSE S(escape)

replace_escape(escape) ==
    IF escape[1] \in {"u", "U", "x"} THEN ChrOfHex(SubSeq(escape, 2, Len(escape)))
    ELSE IF escape = <<"n">> THEN S(<<"\n">>)
    ELSE IF escape = <<"t">> THEN S(<<"\t">>)
    ELSE IF escape = <<"b">> THEN S(<< CHR_BS >>)
    ELSE IF escape = <<"r">> THEN S(<<"\r">>)
    ELSE IF escape = <<"f">> THEN S(<<"\f">>)
    ELSE IF escape = <<"a">> THEN S(<< CHR_BEL >>)
    ELSE IF escape = <<"v">> THEN S(<< CHR_VT >>)
    ELSE IF escape = <<"0">> THEN S(<< CHR_NUL >>)
    ELSE IF escape = <<"\\">> THEN S(<<"\\">>)
    ELSE IF escape = <<"_">> THEN S(<<" ">>)
    ELSE S(escape)

(* ESCAPE_SEQUENCE_RE.sub(replace_escape, text): matches are found left to  *)
(* right without overlap, and an exception of replace_escape ends the call. *)
RECURSIVE sub(_, _, _)
sub(text, i, out) ==
    IF i > Len(text) THEN S(out)
    ELSE IF MatchesAt(text, i)
         THEN LET escape == EscapeAt(text, i)
                  repl == replace_escape(escape)
              IN  IF IsStr(repl) THEN sub(text, i + 1 + Len(escape), out \o repl.v)
                  ELSE repl
         ELSE sub(text, i + 1, Append(out, text[i]))

decode_escape_sequences(text) == sub(text, 1, << >>)


(* ----------------------------------------------------------------------- *)
(* decode_escape_sequences as a function of its argument                    *)
(* ----------------------------------------------------------------------- *)
MaxTokens == 3

RECURSIVE Concat(_)
Concat(parts) ==
    IF Len(parts) = 0 THEN << >> ELSE Head(parts) \o Concat(Tail(parts))

COMMON_ESCAPES == {"n", "t", "b", "r", "f", "a", "v"}

DecodeTokens ==
    { << c >> : c \in COMMON_ESCAPES \cup {"\\", "0", "_", "q", "\"", "u", "U", "x", "\n"} }
        \cup { <<"0", "0", "4", "c">>, <<"7", "c">> }

DecodeTexts == { Concat(parts) : parts \in SeqsUpTo(DecodeTokens, MaxTokens) }

InitDecode ==
    /\ lock = NoLock
    /\ threads = [t \in Threads |-> NoThread]
    /\ table_translation = << >>
    /\ first_locale = en_US
    /\ second_locale = en_US
    /\ call = NoCall
    /\ ncalls = 0
    /\ \E text \in DecodeTexts :
            fcall = [fn |-> "decode_escape_sequences", text |-> text,
                     result |-> NoResult, again |-> NoResult]

(* decode_escape_sequences(text)                                            *)
Decode ==
    /\ fcall.fn = "decode_escape_sequences"
    /\ fcall.result = NoResult
    /\ fcall' = [fcall EXCEPT !.result = decode_escape_sequences(fcall.text)]
    /\ UNCHANGED << table_translation, first_locale, second_locale, call, ncalls, lock, threads >>

(* decode_escape_sequences applied to the text it returned                  *)
DecodeAgain ==
    /\ fcall.fn = "decode_escape_sequences"
    /\ IsStr(fcall.result)
    /\ fcall.again = NoResult
    /\ fcall' = [fcall EXCEPT !.again = decode_escape_sequences(fcall.result.v)]
    /\ UNCHANGED << table_translation, first_locale, second_locale, call, ncalls, lock, threads >>

NextDecode == Decode \/ DecodeAgain

SpecDecode == InitDecode /\ [][NextDecode]_vars

Decoded == fcall.fn = "decode_escape_sequences" /\ fcall.result # NoResult

(* The text is a backslash followed by the single character c.              *)
BackslashThen(c) == fcall.text = <<"\\", c>>

ControlCharacter(c) ==
    CASE c = "n" -> "\n"
      [] c = "t" -> "\t"
      [] c = "b" -> CHR_BS
      [] c = "r" -> "\r"
      [] c = "f" -> "\f"
      [] c = "a" -> CHR_BEL
      [] c = "v" -> CHR_VT

SingleCharacters == { t[1] : t \in { u \in DecodeTokens : Len(u) = 1 } }

C16_NoBackslashFixed ==
    (Decoded /\ ~InSeq("\\", fcall.text)) =>
        /\ fcall.result = S(fcall.text)
        /\ fcall.again # NoResult => fcall.again = fcall.result

(* A non-empty text without a backslash has been decoded twice.             *)
C16_Witness ==
    /\ Decoded
    /\ ~InSeq("\\", fcall.text)
    /\ Len(fcall.text) >= 2
    /\ fcall.again = S(fcall.text)

(* ======================================================================= *)
(* I18nControl.load_lang_content                                            *)
(* ======================================================================= *)
(* str.strip() removes these from both ends.                                *)
WHITESPACE == {" ", "\t", "\n", "\r", "\f", CHR_VT,
               "chr(28)", "chr(29)", "chr(30)", "chr(31)", "chr(133)", "chr(160)"}

(* str.splitlines() breaks a text at these ("\r\n" counts once).            *)
LINE_BOUNDARIES == {"\n", "\r", "\f", CHR_VT,
                    "chr(28)", "chr(29)", "chr(30)", "chr(133)", "chr(8232)", "chr(8233)"}

RECURSIVE strip(_)
strip(s) ==
    IF Len(s) > 0 /\ s[1] \in WHITESPACE THEN strip(Tail(s))
    ELSE IF Len(s) > 0 /\ s[Len(s)] \in WHITESPACE THEN strip(SubSeq(s, 1, Len(s) - 1))
    ELSE s

endswith(s, p) == Len(p) <= Len(s) /\ SubSeq(s, Len(s) - Len(p) + 1, Len(s)) = p

RECURSIVE splitlines(_)
splitlines(s) ==
    IF Len(s) = 0 THEN << >>
    ELSE IF \A j \in 1..Len(s) : s[j] \notin LINE_BOUNDARIES THEN << s >>
    ELSE LET i == CHOOSE j \in 1..Len(s) :
                      s[j] \in LINE_BOUNDARIES
                      /\ \A m \in 1..(j - 1) : s[m] \notin LINE_BOUNDARIES
             n == IF s[i] = "\r" /\ i < Len(s) /\ s[i + 1] = "\n" THEN 2 ELSE 1
         IN  << SubSeq(s, 1, i - 1) >> \o splitlines(SubSeq(s, i + n, Len(s)))

(* s.split(sep, 1)                                                          *)
split_once(s, sep) ==
    IF ~InSeq(sep, s) THEN << s >>
    ELSE LET i == CHOOSE j \in 1..Len(s) :
                      s[j] = sep /\ \A m \in 1..(j - 1) : s[m] # sep
         IN  << SubSeq(s, 1, i - 1), SubSeq(s, i + 1, Len(s)) >>

(* sep.join(parts)                                                          *)
RECURSIVE join(_, _)
join(sep, parts) ==
    IF Len(parts) = 0 THEN << >>
    ELSE IF Len(parts) = 1 THEN parts[1]
    ELSE parts[1] \o sep \o join(sep, Tail(parts))

(* [x for x in xs if x]                                                     *)
RECURSIVE NonEmpty(_)
NonEmpty(xs) ==
    IF Len(xs) = 0 THEN << >>
    ELSE IF Len(Head(xs)) = 0 THEN NonEmpty(Tail(xs))
    ELSE << Head(xs) >> \o NonEmpty(Tail(xs))


(* self.i18n.ctrl_get_locale()[0]: the attribute is what                    *)
(* Internationalization.__getattribute__ gives for a public name, and a str *)
(* cannot be called.                                                        *)
ctrl_get_locale(st) ==
    IF IsInstanceStr(getattr(Obj("Internationalization"), Name.ctrl_get_locale, st))
    THEN TypeError
    ELSE AttributeError

(* The local variables of load_lang_content together with the table; key   *)
(* is unbound until the first key=value line.                               *)
LoaderStart(tbl, locale, superiors) ==
    [table |-> tbl, locale |-> locale, superiors |-> superiors,
     multiline_mode |-> FALSE, multiline_line |-> << >>, key |-> << >>,
     raised |-> NoResult]

(* A "#define" line                                                         *)
Define(ls, line) ==
    LET instruction == split(line, " ")
        define == instruction[2]
        values == NonEmpty(SubSeq(instruction, 3, Len(instruction)))
    IN  IF Len(instruction) <= 2 THEN ls
        ELSE IF define = <<"l", "o", "c", "a", "l", "e">>
             THEN IF Len(values) = 0 THEN ls ELSE [ls EXCEPT !.locale =
                                PyList([i \in 1..Len(values) |-> S(values[i])])]
        ELSE IF define = <<"s", "u", "p", "e", "r", "i", "o", "r", "s">>
             THEN IF Len(values) = 0 \/ values[1] \in {<<".">>, <<"/">>, <<"#">>}
                  THEN [ls EXCEPT !.superiors = << >>]
                  ELSE [ls EXCEPT !.superiors = join(<<".">>, values)]
        ELSE ls

(* Variant: the prefix is left out of the stored key.                       *)
final_key_NoPrefix(superiors, key) == key

(* f"{superiors}.{key}" if superiors != "" else key                         *)
final_key(superiors, key) ==
    IF superiors # << >> THEN superiors \o <<".">> \o key ELSE key

(* decode_escape_sequences(text); self.set_translation(locale, key, text)   *)
Store(ls, first, key, text) ==
    LET decoded == decode_escape_sequences(text)
        r == set_translation(ls.table, first, ls.locale, S(key), decoded)
    IN  IF ~IsStr(decoded) THEN [ls EXCEPT !.raised = decoded]
        ELSE [ls EXCEPT !.table = r.table,
                        !.raised = IF r.raised THEN TypeError ELSE NoResult]

(* Variant: double quotes around a part are kept.                           *)
Assign_KeepsQuotes(ls, first, key, text) ==
    LET multiline_mode == endswith(text, <<" ", "\\">>) \/ text = <<"\\">>
        cut == IF multiline_mode THEN SubSeq(text, 1, Len(text) - 2) ELSE text
        here == [ls EXCEPT !.key = key, !.multiline_mode = multiline_mode]
    IN  IF multiline_mode
        THEN [here EXCEPT !.multiline_line = Append(@, cut)]
        ELSE IF Len(ls.multiline_line) > 0
        THEN Store([here EXCEPT !.multiline_line = << >>], first,
                   final_key(ls.superiors, key),
                   join(<< >>, Append(ls.multiline_line, cut)))
        ELSE Store(here, first, final_key(ls.superiors, key), cut)

(* The loop body from the continuation test on, for the text of this line.  *)
Assign(ls, first, key, text) ==
    LET multiline_mode == endswith(text, <<" ", "\\">>) \/ text = <<"\\">>
        cut == IF multiline_mode THEN SubSeq(text, 1, Len(text) - 2) ELSE text
        unquoted == IF Len(cut) >= 2 /\ startswith(cut, <<"\"">>) /\ endswith(cut, <<"\"">>)
                    THEN SubSeq(cut, 2, Len(cut) - 1)
                    ELSE cut
        here == [ls EXCEPT !.key = key, !.multiline_mode = multiline_mode]
    IN  IF multiline_mode
        THEN [here EXCEPT !.multiline_line = Append(@, unquoted)]
        ELSE IF Len(ls.multiline_line) > 0
        THEN Store([here EXCEPT !.multiline_line = << >>], first,
                   final_key(ls.superiors, key),
                   join(<< >>, Append(ls.multiline_line, unquoted)))
        ELSE Store(here, first, final_key(ls.superiors, key), unquoted)

(* Variant: only "#" starts a comment.                                      *)
IsComment_HashOnly(line) == startswith(line, <<"#">>)

(* The three comment branches, tried after "#define".                       *)
IsComment(line) ==
    \/ startswith(line, <<"#">>)
    \/ startswith(line, <<";">>)
    \/ startswith(line, <<"/", "/">>)

(* One pass of the loop over content_lines                                  *)
LineStep(ls, first, raw) ==
    LET line == strip(raw)
        lst == split_once(line, "=")
    IN  IF ls.multiline_mode THEN Assign(ls, first, ls.key, strip(line))
        ELSE IF startswith(line, <<"#", "d", "e", "f", "i", "n", "e">>) THEN Define(ls, line)
        ELSE IF IsComment(line) THEN ls
        ELSE IF Len(lst) # 2 THEN ls
        ELSE Assign(ls, first, strip(lst[1]), strip(lst[2]))

(* The loop after its first n passes; an exception ends it.                 *)
RECURSIVE Loop(_, _, _, _)
Loop(ls, first, content_lines, n) ==
    IF n = 0 THEN ls
    ELSE LET before == Loop(ls, first, content_lines, n - 1)
         IN  IF before.raised # NoResult THEN before
             ELSE LineStep(before, first, content_lines[n])

(* Variant: the loop has no else branch.                                    *)
Flush_Nothing(ls, first) == ls

(* The else branch of the loop: an open continuation is stored.             *)
Flush(ls, first) ==
    IF ls.raised = NoResult /\ Len(ls.multiline_line) > 0
    THEN Store(ls, first, final_key(ls.superiors, ls.key), join(<< >>, ls.multiline_line))
    ELSE ls

(* Returns the table left behind and the exception raised, if any.          *)
load_lang_content(st, content, locale, superiors) ==
    LET target == IF IsNone(locale) THEN ctrl_get_locale(st) ELSE locale
        prefix == IF IsNone(superiors) THEN << >> ELSE superiors.v
        content_lines == splitlines(content)
        done == Flush(Loop(LoaderStart(st.table, target, prefix), st.first,
                           content_lines, Len(content_lines)), st.first)
    IN  IF Len(content) = 0 THEN [table |-> st.table, raised |-> NoResult]
        ELSE IF ~IsStr(target) THEN [table |-> st.table, raised |-> TypeError]
        ELSE IF ~IsNone(superiors) /\ ~IsStr(superiors)
             THEN [table |-> st.table, raised |-> TypeError]
        ELSE [table |-> done.table, raised |-> done.raised]

(* ----------------------------------------------------------------------- *)
(* load_lang_content on a store as constructed                              *)
(* ----------------------------------------------------------------------- *)
MaxLines == 2

(* The lines the contents are made of.                                      *)
Line ==
    [ (* k = v *)
      kv |->
          <<"k", " ", "=", " ", "v">>,
      (* j=w *)
      kv_tight |->
          <<"j", "=", "w">>,
      (* k = a backslash *)
      continued |->
          <<"k", " ", "=", " ", "a", " ", "\\">>,
      (* #define superiors p *)
      superiors_one |->
          <<"#", "d", "e", "f", "i", "n", "e", " ", "s", "u", "p", "e", "r", "i", "o", "r", "s", " ", "p">>,
      (* #define superiors a b *)
      superiors_two |->
          <<"#", "d", "e", "f", "i", "n", "e", " ", "s", "u", "p", "e", "r", "i", "o", "r", "s", " ", "a", " ", "b">>,
      (* #define superiors . *)
      superiors_dot |->
          <<"#", "d", "e", "f", "i", "n", "e", " ", "s", "u", "p", "e", "r", "i", "o", "r", "s", " ", ".">>,
      (* #define superiors / *)
      superiors_slash |->
          <<"#", "d", "e", "f", "i", "n", "e", " ", "s", "u", "p", "e", "r", "i", "o", "r", "s", " ", "/">>,
      (* #define superiors *)
      superiors_bare |->
          <<"#", "d", "e", "f", "i", "n", "e", " ", "s", "u", "p", "e", "r", "i", "o", "r", "s">>,
      (* #define locale zh_CN *)
      locale |->
          <<"#", "d", "e", "f", "i", "n", "e", " ", "l", "o", "c", "a", "l", "e", " ", "z", "h", "_", "C", "N">>,
      (* #c=d *)
      hash |->
          <<"#", "c", "=", "d">>,
      (* ;c=d *)
      semicolon |->
          <<";", "c", "=", "d">>,
      (* //c=d *)
      slashes |->
          <<"/", "/", "c", "=", "d">>,
      (* noeq *)
      no_equals |->
          <<"n", "o", "e", "q">>,
      (* j = "w" *)
      kv_quoted |->
          <<"j", " ", "=", " ", "\"", "w", "\"">>,
      (* k = "a" backslash *)
      quoted_continued |->
          <<"k", " ", "=", " ", "\"", "a", "\"", " ", "\\">>,
      (* "b" *)
      quoted_part |->
          <<"\"", "b", "\"">> ]


ContentLines ==
    {Line.kv_quoted, Line.quoted_continued, Line.quoted_part,
     Line.kv, Line.kv_tight, Line.continued, Line.superiors_one,
     Line.superiors_two, Line.superiors_dot, Line.superiors_slash, Line.superiors_bare,
     Line.locale, Line.hash, Line.semicolon, Line.slashes,
     Line.no_equals}

Prefix_arg == <<"a", "r", "g">>

LoadContents == { join(<<"\n">>, ls) : ls \in SeqsUpTo(ContentLines, MaxLines) }

(* (locale, superiors) argument pairs                                       *)
LoadArgs == { << S(en_US), None >>, << S(en_US), S(Prefix_arg) >>, << None, None >> }

I18nControl_load_lang_content(content, locale, superiors) ==
    /\ fcall.fn = "none"
    /\ LET r == load_lang_content(store, content, locale, superiors)
       IN  /\ table_translation' = r.table
           /\ fcall' = [fn |-> "load_lang_content", content |-> content,
                        locale |-> locale, superiors |-> superiors,
                        before |-> table_translation,
                        result |-> IF r.raised = NoResult THEN None ELSE r.raised]
    /\ UNCHANGED << first_locale, second_locale, call, ncalls, lock, threads >>

NextLoad ==
    \E content \in LoadContents : \E args \in LoadArgs :
        I18nControl_load_lang_content(content, args[1], args[2])

SpecLoad == Init /\ [][NextLoad]_vars

Loaded == fcall.fn = "load_lang_content"

LoadedLines == splitlines(fcall.content)

(* The loader after the first n lines of the loaded content.                *)
After(n) ==
    Loop(LoaderStart(fcall.before, fcall.locale,
                     IF IsNone(fcall.superiors) THEN << >> ELSE fcall.superiors.v),
         first_locale, LoadedLines, n)

(* The locales a line is stored under.                                      *)
TargetsOf(locale) ==
    IF locale.t = "list" THEN { locale.v[i].v : i \in 1..Len(locale.v) }
    ELSE { locale.v }

(* key=value lines that are complete on one line                            *)
KeyValueLines ==
    { [line |-> Line.kv, key |-> <<"k">>, text |-> <<"v">>],
      [line |-> Line.kv_tight, key |-> <<"j">>, text |-> <<"w">>] }

(* #define superiors lines that carry a prefix                              *)
SuperiorsLines ==
    { [line |-> Line.superiors_one, values |-> << <<"p">> >>],
      [line |-> Line.superiors_two, values |-> << <<"a">>, <<"b">> >>] }

(* C17: without an explicit locale and without a prefix, load_lang_content *)
(* completes without error and stores the lines under the primary locale,  *)
(* so that after loading "k = v" translation("k") is "v".                   *)
C17_DefaultLocale ==
    (Loaded /\ IsNone(fcall.locale) /\ IsNone(fcall.superiors)) =>
        /\ fcall.result = None
        /\ fcall.content = Line.kv => translation(store, <<"k">>, None) = <<"v">>

(* C18: a key=value line read while the prefix P is active is stored under *)
(* P.key, under key alone when P is empty; a "#define superiors v1 .. vn"   *)
(* line makes v1.v2...vn the prefix for the lines after it, whatever the   *)
(* superiors argument was, and stores nothing itself.                       *)
C18_KeysUnderPrefix ==
    (Loaded /\ IsStr(fcall.locale)) =>
        /\ After(0).superiors =
               (IF IsNone(fcall.superiors) THEN << >> ELSE fcall.superiors.v)
        /\ \A n \in 1..Len(LoadedLines) :
               ~After(n - 1).multiline_mode =>
                   /\ \A kv \in KeyValueLines :
                          LoadedLines[n] = kv.line =>
                              \A L \in TargetsOf(After(n - 1).locale) :
                                  Lookup(After(n).table, L,
                                         IF After(n - 1).superiors = << >> THEN kv.key
                                         ELSE After(n - 1).superiors \o <<".">> \o kv.key)
                                      = S(kv.text)
                   /\ \A d \in SuperiorsLines :
                          LoadedLines[n] = d.line =>
                              /\ After(n).superiors = join(<<".">>, d.values)
                              /\ After(n).table = After(n - 1).table

(* "#define superiors a b" then "k = v", loaded with the prefix argument    *)
(* "arg": the text is stored under "a.b.k".                                 *)
C18_Witness ==
    /\ Loaded
    /\ fcall.superiors = S(Prefix_arg)
    /\ fcall.content = join(<<"\n">>, << Line.superiors_two, Line.kv >>)
    /\ fcall.result = None
    /\ Lookup(table_translation, en_US, <<"a", ".", "b", ".", "k">>) = S(<<"v">>)

(* C19: a "#define superiors" line whose value is ".", "/" or missing      *)
(* clears the prefix.                                                       *)
C19_ClearsPrefix ==
    (Loaded /\ IsStr(fcall.locale)) =>
        \A n \in 1..Len(LoadedLines) :
            (/\ ~After(n - 1).multiline_mode
             /\ LoadedLines[n] \in
                    {Line.superiors_dot, Line.superiors_slash, Line.superiors_bare}) =>
                After(n).superiors = << >>

(* A line that is a comment or has no "=".                                  *)
SkippedLines == {Line.hash, Line.semicolon, Line.slashes, Line.no_equals}

(* C20: outside continuation mode, a line that starts with "#" (and is no  *)
(* "#define"), with ";" or with "//", and a line without "=", leaves the    *)
(* table, the active locale and the prefix as they were, and raises nothing. *)
C20_SkippedLines ==
    (Loaded /\ IsStr(fcall.locale)) =>
        \A n \in 1..Len(LoadedLines) :
            (/\ ~After(n - 1).multiline_mode
             /\ LoadedLines[n] \in SkippedLines) =>
                /\ After(n).table = After(n - 1).table
                /\ After(n).locale = After(n - 1).locale
                /\ After(n).superiors = After(n - 1).superiors
                /\ After(n).raised = NoResult

(* A comment line holding "=" was read after an entry was stored under a   *)
(* prefix, and the load left exactly that entry.                            *)
C20_Witness ==
    /\ Loaded
    /\ fcall.superiors = S(Prefix_arg)
    /\ Len(LoadedLines) = 2
    /\ LoadedLines[1] = Line.kv
    /\ LoadedLines[2] = Line.semicolon
    /\ fcall.result = None
    /\ table_translation =
           << [locale |-> en_US, bucket |-> (<<"a", "r", "g", ".", "k">> :> <<"v">>)] >>

(* ----------------------------------------------------------------------- *)
(* Continuation, quotes and the end of the input                            *)
(* ----------------------------------------------------------------------- *)
Marker == <<" ", "\\">>

(* The text of a part without its continuation marker.                      *)
Unmarked(text) ==
    IF endswith(text, Marker) THEN SubSeq(text, 1, Len(text) - 2) ELSE text

(* The text without a pair of double quotes that spans it.                  *)
Unquoted(text) ==
    IF Len(text) >= 2 /\ text[1] = "\"" /\ text[Len(text)] = "\""
    THEN SubSeq(text, 2, Len(text) - 1)
    ELSE text

(* The key=value lines of the contents, with key and raw value.             *)
ValueLines ==
    { [line |-> Line.kv, key |-> <<"k">>, value |-> <<"v">>],
      [line |-> Line.kv_tight, key |-> <<"j">>, value |-> <<"w">>],
      [line |-> Line.kv_quoted, key |-> <<"j">>, value |-> <<"\"", "w", "\"">>],
      [line |-> Line.continued, key |-> <<"k">>, value |-> <<"a", " ", "\\">>],
      [line |-> Line.quoted_continued, key |-> <<"k">>,
       value |-> <<"\"", "a", "\"", " ", "\\">>] }

(* The key a line read at position n is stored under.                       *)
KeyAt(n, key) ==
    IF After(n - 1).superiors = << >> THEN key
    ELSE After(n - 1).superiors \o <<".">> \o key

(* Line n opens a value that line n + 1 completes.                          *)
TwoParts(n, v) ==
    /\ n + 1 <= Len(LoadedLines)
    /\ ~After(n - 1).multiline_mode
    /\ LoadedLines[n] = v.line
    /\ endswith(v.value, Marker)
    /\ ~endswith(LoadedLines[n + 1], Marker)

(* C21: a value ending with the continuation marker takes the next line,   *)
(* whatever it looks like, as its second part, and the stored text is the   *)
(* two parts joined with a newline.                                         *)
C21_JoinedWithNewline ==
    (Loaded /\ IsStr(fcall.locale)) =>
        \A n \in 1..Len(LoadedLines) : \A v \in ValueLines :
            (TwoParts(n, v) /\ v.line = Line.continued
                            /\ LoadedLines[n + 1] # Line.quoted_part) =>
                \A L \in TargetsOf(After(n - 1).locale) :
                    Lookup(After(n + 1).table, L, KeyAt(n, v.key))
                        = S(Unmarked(v.value) \o <<"\n">> \o LoadedLines[n + 1])

(* C22 as stated: the quotes are removed from the text of the entry, for a *)
(* value of two parts from the text after the parts are joined.             *)
C22_QuotesOnJoinedText ==
    (Loaded /\ IsStr(fcall.locale)) =>
        \A n \in 1..Len(LoadedLines) : \A v \in ValueLines :
            \A L \in TargetsOf(After(n - 1).locale) :
                /\ (/\ ~After(n - 1).multiline_mode
                    /\ LoadedLines[n] = v.line
                    /\ ~endswith(v.value, Marker)) =>
                       Lookup(After(n).table, L, KeyAt(n, v.key)) = S(Unquoted(v.value))
                /\ TwoParts(n, v) =>
                       Lookup(After(n + 1).table, L, KeyAt(n, v.key))
                           = S(Unquoted(Unmarked(v.value) \o LoadedLines[n + 1]))

(* C22, amended: the quotes are removed from each part on its own, after   *)
(* its continuation marker is cut off and before the parts are joined.      *)
C22_QuotesOnEachPart ==
    (Loaded /\ IsStr(fcall.locale)) =>
        \A n \in 1..Len(LoadedLines) : \A v \in ValueLines :
            \A L \in TargetsOf(After(n - 1).locale) :
                /\ (/\ ~After(n - 1).multiline_mode
                    /\ LoadedLines[n] = v.line
                    /\ ~endswith(v.value, Marker)) =>
                       Lookup(After(n).table, L, KeyAt(n, v.key)) = S(Unquoted(v.value))
                /\ TwoParts(n, v) =>
                       Lookup(After(n + 1).table, L, KeyAt(n, v.key))
                           = S(Unquoted(Unmarked(v.value)) \o Unquoted(LoadedLines[n + 1]))

(* k = "a" with marker, then "b": the entry of k is ab.                     *)
C22_Witness ==
    /\ Loaded
    /\ fcall.result = None
    /\ LoadedLines = << Line.quoted_continued, Line.quoted_part >>
    /\ IsNone(fcall.superiors)
    /\ Lookup(table_translation, en_US, <<"k">>) = S(<<"a", "b">>)

(* The locales with a bucket in either table.                               *)
LocalesOf(tbl) == { tbl[i].locale : i \in 1..Len(tbl) }

(* tbl2 is tbl1 except for the entries (L, key), L in targets, which hold   *)
(* text.                                                                    *)
OnlyAdds(tbl1, tbl2, targets, key, text) ==
    /\ \A L \in targets : Lookup(tbl2, L, key) = S(text)
    /\ \A L \in LocalesOf(tbl1) \cup LocalesOf(tbl2) :
       \A k \in DOMAIN BucketOf(tbl1, L) \cup DOMAIN BucketOf(tbl2, L) :
            (L \notin targets \/ k # key) => Lookup(tbl2, L, k) = Lookup(tbl1, L, k)

(* C28: when the last line of the input ends with the marker, the load     *)
(* adds exactly the entry of the pending key, under the active locales and *)
(* prefix, with the buffered parts as text; otherwise the table is the one *)
(* the last line left.                                                      *)
C28_FlushAtEnd ==
    (Loaded /\ IsStr(fcall.locale) /\ Len(LoadedLines) > 0) =>
        LET last == After(Len(LoadedLines))
        IN  IF endswith(LoadedLines[Len(LoadedLines)], Marker)
            THEN /\ last.multiline_line # << >>
                 /\ OnlyAdds(last.table, table_translation, TargetsOf(last.locale),
                             IF last.superiors = << >> THEN last.key
                             ELSE last.superiors \o <<".">> \o last.key,
                             join(<< >>, last.multiline_line))
            ELSE table_translation = last.table

(* The input "k = a" with marker ends the load with the entry arg.k = a.    *)
C28_Witness ==
    /\ Loaded
    /\ fcall.result = None
    /\ fcall.superiors = S(Prefix_arg)
    /\ LoadedLines = << Line.continued >>
    /\ table_translation =
           << [locale |-> en_US, bucket |-> (<<"a", "r", "g", ".", "k">> :> <<"a">>)] >>

(* ----------------------------------------------------------------------- *)
(* The decoder on malformed escapes                                         *)
(* ----------------------------------------------------------------------- *)
(* C30: for every input the decoder returns a string and raises no error.   *)
C30_AlwaysReturnsString ==
    Decoded => IsStr(fcall.result)

(* ----------------------------------------------------------------------- *)
(* set_translation with arguments of the wrong type                         *)
(* ----------------------------------------------------------------------- *)
(* One call of set_translation, with the table it found.                    *)
I18nControl_set_translation(locale, key, text) ==
    LET r == set_translation(table_translation, first_locale, locale, key, text)
    IN  /\ ncalls < MaxCalls
        /\ table_translation' = r.table
        /\ fcall' = [fn |-> "set_translation", locale |-> locale, key |-> key,
                     text |-> text, before |-> store,
                     result |-> IF r.raised THEN TypeError ELSE None]
        /\ ncalls' = ncalls + 1
        /\ UNCHANGED << first_locale, second_locale, call, lock, threads >>

(* Locale arguments: None, a code, an int, and lists where an int can stand *)
(* before or after a code; keys and texts: None, a string, an int.          *)
SpecRaise ==
    Init /\ [][\E locale \in {None, S(zh_CN), PyInt}
                       \cup {PyList(xs) : xs \in SeqsUpTo({S(zh_CN), S(zh_HK), PyInt},
                                                          MaxListLen)},
                  key \in {None, S(Key_a), PyInt},
                  text \in {None, S(Text_x), PyInt} :
                   I18nControl_set_translation(locale, key, text)]_vars

(* C29: when set_translation raises a type error, the table and the        *)
(* primary/secondary pair are as they were before the call.                 *)
C29_RaiseChangesNothing ==
    (fcall.fn = "set_translation" /\ fcall.result = TypeError) => store = fcall.before

(* ----------------------------------------------------------------------- *)
(* I18nControl.load_dict                                                    *)
(* ----------------------------------------------------------------------- *)
(* A dict is the sequence of its (key, value) pairs in iteration order.     *)
PyDict(items) == [t |-> "dict", v |-> items]

RECURSIVE load_dict(_, _, _, _, _, _)

(* The items from the i-th on are visited; returns the table left behind    *)
(* and whether TypeError was raised.  superiors is None, a str or an int.   *)
load_dict(tbl, first, items, i, locale, superiors) ==
    IF ~IsNone(superiors) /\ ~IsStr(superiors) THEN [table |-> tbl, raised |-> TRUE]
    ELSE IF i > Len(items) THEN [table |-> tbl, raised |-> FALSE]
    ELSE LET prefix == IF IsNone(superiors) THEN << >> ELSE superiors.v
             key == items[i][1]
             value == items[i][2]
             final_key_ == IF prefix # << >> THEN prefix \o <<".">> \o key ELSE key
             r == IF IsStr(value)
                  THEN set_translation(tbl, first, locale, S(final_key_), value)
                  ELSE IF value.t = "dict"
                  THEN load_dict(tbl, first, value.v, 1, locale, S(final_key_))
                  ELSE [table |-> tbl, raised |-> FALSE]
         IN  IF r.raised THEN r
             ELSE load_dict(r.table, first, items, i + 1, locale, superiors)

MaxDepth == 2
MaxItems == 2

RECURSIVE DictsOfDepth(_)

(* The dicts nested at most d deep: keys a, b and the empty string, no key  *)
(* twice; values a text, an int or a dict.                                  *)
DictsOfDepth(d) ==
    IF d = 0 THEN {}
    ELSE LET keys == {<<"a">>, <<"b">>, << >>}
             values == {S(Text_x), PyInt} \cup DictsOfDepth(d - 1)
         IN  { PyDict(items) :
                   items \in { xs \in SeqsUpTo(keys \X values, MaxItems) :
                                  \A i, j \in 1..Len(xs) :
                                      i # j => xs[i][1] # xs[j][1] } }

I18nControl_load_dict(dictionary, locale, superiors) ==
    /\ fcall.fn = "none"
    /\ LET r == load_dict(table_translation, first_locale, dictionary.v, 1,
                          locale, superiors)
       IN  /\ table_translation' = r.table
           /\ fcall' = [fn |-> "load_dict", dictionary |-> dictionary,
                        locale |-> locale, superiors |-> superiors,
                        result |-> IF r.raised THEN TypeError ELSE None]
    /\ UNCHANGED << first_locale, second_locale, call, ncalls, lock, threads >>

SpecDict ==
    Init /\ [][\E dictionary \in DictsOfDepth(MaxDepth),
                  args \in { << S(zh_CN), None >>, << S(zh_CN), S(Prefix_arg) >>,
                             << None, None >> } :
                   I18nControl_load_dict(dictionary, args[1], args[2])]_vars

(* The string leaves of the items, each with the keys that lead to it.      *)
RECURSIVE LeavesOf(_, _)
LeavesOf(items, path) ==
    UNION { LET k == items[i][1]
                v == items[i][2]
            IN  IF IsStr(v) THEN { [path |-> Append(path, k), text |-> v.v] }
                ELSE IF v.t = "dict" THEN LeavesOf(v.v, Append(path, k))
                ELSE {}
            : i \in 1..Len(items) }

(* C23: load_dict(tree, L) on an empty table stores, for every string leaf *)
(* reached through the keys k1..kn, the entry (L, "k1.k2...kn") = leaf, and *)
(* no other entry.                                                          *)
C23_LeavesUnderDottedKeys ==
    (fcall.fn = "load_dict" /\ IsStr(fcall.locale) /\ IsNone(fcall.superiors)) =>
        LET leaves == LeavesOf(fcall.dictionary.v, << >>)
        IN  /\ \A leaf \in leaves :
                   Lookup(table_translation, fcall.locale.v, join(<<".">>, leaf.path))
                       = S(leaf.text)
            /\ \A L \in LocalesOf(table_translation) :
               \A k \in DOMAIN BucketOf(table_translation, L) :
                    /\ L = fcall.locale.v
                    /\ \E leaf \in leaves : k = join(<<".">>, leaf.path)

(* ----------------------------------------------------------------------- *)
(* I18nControl.auto_load                                                    *)
(* ----------------------------------------------------------------------- *)
(* The default of the locale argument is None; the code tests for Ellipsis. *)
Ellipsis == [t |-> "ellipsis", v |-> << >>]

(* A directory is the sequence of its entries in os.listdir order; an entry *)
(* is a file ("file") with its content or a directory ("dir") with its      *)
(* entries.                                                                 *)
Entry(name, kind, content, children) ==
    [name |-> name, kind |-> kind, content |-> content, children |-> children]

(* s.rsplit(sep, 1)                                                         *)
rsplit_once(s, sep) ==
    IF ~InSeq(sep, s) THEN << s >>
    ELSE LET i == CHOOSE j \in 1..Len(s) :
                      s[j] = sep /\ \A m \in (j + 1)..Len(s) : s[m] # sep
         IN  << SubSeq(s, 1, i - 1), SubSeq(s, i + 1, Len(s)) >>

RECURSIVE auto_load(_, _, _, _)

(* One round of the loop, for the entry e, after the rounds that left       *)
(* `before`: an exception raised earlier has ended the loop.  load_json     *)
(* fails on its unbound local `superiors`, load_csv_i18n on reading the     *)
(* file it has closed.                                                      *)
Visit(st, before, e, locale) ==
    LET lst == rsplit_once(e.name, ".")
        now == [st EXCEPT !.table = before.table]
    IN  IF before.raised # NoResult THEN before
        ELSE IF e.kind = "dir"
        THEN IF locale = Ellipsis
             THEN auto_load(now, e.children, Len(e.children), S(e.name))
             ELSE before
        ELSE IF Len(lst) < 2 THEN before
        ELSE IF lst[2] = <<"j", "s", "o", "n">>
        THEN [table |-> before.table,
              raised |-> [t |-> "UnboundLocalError", v |-> << >>]]
        ELSE IF lst[2] = <<"c", "s", "v">>
        THEN [table |-> before.table, raised |-> ValueError]
        ELSE IF lst[2] = <<"l", "a", "n", "g">>
        THEN load_lang_content(now, e.content,
                               IF IsNone(locale) THEN S(lst[1]) ELSE locale,
                               IF IsNone(locale) THEN None ELSE S(lst[1]))
        ELSE before

(* The first n entries of the directory are visited; returns the table left *)
(* behind and the exception raised, if any.                                 *)
auto_load(st, entries, n, locale) ==
    IF n = 0 THEN [table |-> st.table, raised |-> NoResult]
    ELSE Visit(st, auto_load(st, entries, n - 1, locale), entries[n], locale)

MaxEntries == 2

(* Files named zh_CN.lang, app.lang, app, app.json and app.csv holding one  *)
(* key=value line; directories zh_CN and en_US holding at most one file.    *)
DirEntries ==
    LET Files == { Entry(name, "file", Line.kv, << >>) :
                       name \in { zh_CN \o <<".", "l", "a", "n", "g">>,
                                  <<"a", "p", "p", ".", "l", "a", "n", "g">>,
                                  <<"a", "p", "p">>,
                                  <<"a", "p", "p", ".", "j", "s", "o", "n">>,
                                  <<"a", "p", "p", ".", "c", "s", "v">> } }
    IN  Files \cup { Entry(name, "dir", << >>, children) :
                         name \in {zh_CN, en_US},
                         children \in SeqsUpTo(Files, 1) }

I18nControl_auto_load(path, locale) ==
    /\ fcall.fn = "none"
    /\ LET r == auto_load(store, path, Len(path), locale)
       IN  /\ table_translation' = r.table
           /\ fcall' = [fn |-> "auto_load", path |-> path, locale |-> locale,
                        result |-> IF r.raised = NoResult THEN None ELSE r.raised]
    /\ UNCHANGED << first_locale, second_locale, call, ncalls, lock, threads >>

SpecAuto ==
    Init /\ [][\E path \in { es \in SeqsUpTo(DirEntries, MaxEntries) :
                                \A i, j \in 1..Len(es) :
                                    i # j => es[i].name # es[j].name },
                  locale \in {None, Ellipsis, S(zh_CN)} :
                   I18nControl_auto_load(path, locale)]_vars

(* C24: auto_load(dir) without a locale enters every subdirectory and binds *)
(* its name as the locale of the files beneath it: the text of a .lang file *)
(* in a subdirectory is in the bucket named after the subdirectory.         *)
C24_SubdirectoryNamesLocale ==
    (fcall.fn = "auto_load" /\ IsNone(fcall.locale) /\ fcall.result = None) =>
        \A i \in 1..Len(fcall.path) :
            LET e == fcall.path[i]
            IN  (/\ e.kind = "dir"
                 /\ Len(e.children) = 1
                 /\ endswith(e.children[1].name, <<".", "l", "a", "n", "g">>)) =>
                    \E k \in DOMAIN BucketOf(table_translation, e.name) :
                        BucketOf(table_translation, e.name)[k] = <<"v">>

(* ----------------------------------------------------------------------- *)
(* Child segments of an I18nString                                          *)
(* ----------------------------------------------------------------------- *)
Key_attribute == <<"a", "t", "t", "r", "i", "b", "u", "t", "e">>
Name_overload == <<"o", "v", "e", "r", "l", "o", "a", "d">>
Key_attribute_overload == Key_attribute \o <<".">> \o Name_overload

(* s = ctrl.translation(key, locale), then s.seg                            *)
I18nString_getattr(key, locale, seg) ==
    /\ fcall' = [fn |-> "getattr", key |-> key, locale |-> locale, seg |-> seg,
                 result |-> getattr(I18nString(translation(store, key, locale), key),
                                    seg, store)]
    /\ UNCHANGED << table_translation, first_locale, second_locale, call, ncalls, lock, threads >>

(* i18n.key.seg                                                             *)
Internationalization_getattr(key, seg) ==
    /\ fcall' = [fn |-> "getattr", key |-> key, locale |-> None, seg |-> seg,
                 result |-> getattr(getattr(Obj("Internationalization"), key, store),
                                    seg, store)]
    /\ UNCHANGED << table_translation, first_locale, second_locale, call, ncalls, lock, threads >>

(* The store is filled and the locale chosen, then a child segment is read. *)
SpecString ==
    Init /\ [][\/ /\ fcall.fn = "none"
                  /\ \/ \E kt \in { << Key_attribute_overload, Text_x >>,
                                    << Name_overload, Text_y >> } :
                            SetTranslation(S(zh_CN), S(kt[1]), S(kt[2]))
                     \/ SetTranslation(S(en_US), S(Key_attribute_overload), S(Text_y))
                     \/ SetLocale(S(zh_CN), None, TRUE)
               \/ \E key \in {Key_attribute, << >>}, locale \in {None, S(zh_CN)},
                     seg \in {Name_overload, Name.class} :
                      I18nString_getattr(key, locale, seg)
               \/ \E key \in {Key_attribute, << >>},
                     seg \in {Name_overload, Name.class} :
                      Internationalization_getattr(key, seg)]_vars

(* A child segment of s was read, and it is not an attribute str has.       *)
ChildRead == fcall.fn = "getattr" /\ fcall.seg \notin StrAttributes

(* The example: attribute.overload reads as its own key while no locale of  *)
(* the pair has an entry, and as the stored text once zh_CN has one and is  *)
(* the primary.                                                             *)
AttributeOverloadExample ==
    (ChildRead /\ fcall.key = Key_attribute /\ fcall.seg = Name_overload) =>
        /\ (/\ IsNone(Lookup(table_translation, first_locale, Key_attribute_overload))
            /\ IsNone(Lookup(table_translation, second_locale, Key_attribute_overload)))
               => fcall.result.v = Key_attribute_overload
        /\ first_locale = zh_CN =>
               \A text \in Texts :
                   Lookup(table_translation, zh_CN, Key_attribute_overload) = S(text)
                       => fcall.result.v = text

(* C25 as stated: for s returned by translation(k), s.seg is               *)
(* translation(k + "." + seg) with no explicit locale, for every key k.     *)
C25_ChildOfEveryKey ==
    /\ ChildRead =>
           /\ fcall.result.t = "I18nString"
           /\ fcall.result.v
                  = translation(store, fcall.key \o <<".">> \o fcall.seg, None)
    /\ AttributeOverloadExample

(* C25, amended: for a non-empty k, s.seg is translation(k + "." + seg)    *)
(* with no explicit locale; for the empty k it is translation(seg).         *)
C25_ChildOfNonEmptyKey ==
    /\ ChildRead =>
           /\ fcall.result.t = "I18nString"
           /\ fcall.result.v
                  = translation(store,
                                IF fcall.key = << >> THEN fcall.seg
                                ELSE fcall.key \o <<".">> \o fcall.seg,
                                None)
    /\ AttributeOverloadExample

(* i18n.attribute.overload reads the text stored for zh_CN, the primary.    *)
C25_Witness ==
    /\ ChildRead
    /\ fcall.key = Key_attribute
    /\ fcall.seg = Name_overload
    /\ IsNone(fcall.locale)
    /\ first_locale = zh_CN
    /\ Lookup(table_translation, zh_CN, Key_attribute_overload) = S(Text_x)
    /\ fcall.result.v = Text_x

(* ----------------------------------------------------------------------- *)
(* Threads and the store lock                                               *)
(* ----------------------------------------------------------------------- *)
(* Variant: the lock is handed to whoever asks.                             *)
CanAcquire_Always(lk, t) == TRUE

(* Variant: a plain lock, which its owner cannot take again.                *)
CanAcquire_NotReentrant(lk, t) == lk.owner = 0

(* RLock.acquire blocks unless the lock is free or owned by the caller.     *)
CanAcquire(lk, t) == lk.owner \in {0, t}

(* RLock.release: the lock is free again when the outermost hold ends.      *)
Release(lk) ==
    IF lk.count <= 1 THEN NoLock ELSE [lk EXCEPT !.count = lk.count - 1]

MaxOps == 2

(* The calls the threads make.                                              *)
ThreadCalls ==
    { [NoCall EXCEPT !.op = "translation", !.key = S(Key_a)],
      [NoCall EXCEPT !.op = "set_locale", !.first_language = S(zh_CN),
                     !.second_language = S(zh_HK)],
      [NoCall EXCEPT !.op = "set_locale", !.first_language = S(zh_HK)],
      [NoCall EXCEPT !.op = "set_locale", !.first_language = S(ja_JP)],
      [NoCall EXCEPT !.op = "set_translation", !.key = S(Key_a), !.text = S(Text_y)],
      [NoCall EXCEPT !.op = "set_translation", !.locale = S(ru_RU),
                     !.key = S(Key_a), !.text = S(Text_x)],
      [NoCall EXCEPT !.op = "set_translation", !.locale = S(zh_HK)],
      [NoCall EXCEPT !.op = "available_locales"] }

(* A store with entries for zh_CN and zh_HK, neither of them the primary or *)
(* the secondary locale; no call in flight.                                 *)
InitThreads ==
    /\ table_translation = << [locale |-> zh_CN, bucket |-> (Key_a :> Text_x)],
                              [locale |-> zh_HK, bucket |-> (Key_a :> Text_y)] >>
    /\ first_locale = en_US
    /\ second_locale = en_US
    /\ call = NoCall
    /\ ncalls = 0
    /\ fcall = NoFcall
    /\ lock = NoLock
    /\ threads = [t \in Threads |-> NoThread]

(* Thread t is at position pc of a call of op.                              *)
At(t, op, pc) == threads[t].c.op = op /\ threads[t].pc = pc

(* Thread t moves to position pc.                                           *)
Goto(t, pc) == threads' = [threads EXCEPT ![t].pc = pc]

(* Thread t enters the call c, up to the `with self._lock:` of its body.    *)
Enter(t, c) ==
    /\ threads[t].pc = "idle"
    /\ ncalls < MaxOps
    /\ ncalls' = ncalls + 1
    /\ threads' = [threads EXCEPT ![t] = [NoThread EXCEPT !.pc = "with", !.c = c]]
    /\ UNCHANGED << table_translation, first_locale, second_locale, call, fcall, lock >>

(* `with self._lock:` of the body or of a property: t waits for the lock    *)
(* and takes it.                                                            *)
With(t) ==
    /\ threads[t].pc \in {"with", "first_locale", "second_locale", "available_locales"}
    /\ CanAcquire(lock, t)
    /\ lock' = [owner |-> t, count |-> lock.count + 1]
    /\ LET th == threads[t]
       IN  threads' = [threads EXCEPT ![t] =
               IF th.pc # "with" THEN [th EXCEPT !.pc = "return"]
               ELSE [th EXCEPT !.seen = store,
                               !.local = th.c.locale,
                               !.pc = IF th.c.op = "set_locale" THEN "first"
                                      ELSE IF th.c.op = "available_locales"
                                      THEN "available"
                                      ELSE IF IsNone(th.c.locale) THEN "first_locale"
                                      ELSE IF th.c.op = "translation" THEN "get"
                                      ELSE "write"]]
    /\ UNCHANGED << table_translation, first_locale, second_locale, call, ncalls, fcall >>

(* The end of the `with` block of the body, reached by falling off its end  *)
(* or by a return inside it: the lock is released and the call returns.     *)
Exit(t) ==
    /\ threads[t].pc = "exit"
    /\ lock' = Release(lock)
    /\ threads' = [threads EXCEPT
           ![t].pc = "idle",
           ![t].c.result = IF threads[t].c.result = NoResult THEN None
                           ELSE threads[t].c.result]
    /\ UNCHANGED << table_translation, first_locale, second_locale, call, ncalls, fcall >>

(* The properties first_locale, second_locale and available_locales return  *)
(* under their own hold of the lock, and the caller goes on.                *)
Property(t) ==
    /\ threads[t].pc = "return"
    /\ lock' = Release(lock)
    /\ LET th == threads[t]
           get (key) == Lookup(table_translation, second_locale, key)
       IN  threads' = [threads EXCEPT ![t] =
               IF th.c.op = "set_locale"
               THEN [th EXCEPT !.local = PyList(OtherLocales(table_translation,
                                                             first_locale)),
                               !.pc = "adjust"]
               ELSE IF th.c.op = "set_translation"
               THEN [th EXCEPT !.local = S(first_locale), !.pc = "write"]
               ELSE IF IsNone(th.local)
               THEN [th EXCEPT !.local = S(first_locale), !.pc = "get"]
               ELSE [th EXCEPT !.c.result = get(th.c.key.v),
                               !.pc = IF IsNone(get(th.c.key.v)) THEN "overload"
                                      ELSE "exit"]]
    /\ UNCHANGED << table_translation, first_locale, second_locale, call, ncalls, fcall >>

(* The body of translation under the lock.                                  *)
Thread_translation(t) ==
    LET c == threads[t].c
        result == Lookup(table_translation, threads[t].local.v, c.key.v)
    IN  /\ \/ /\ At(t, "translation", "get")
              /\ threads' = [threads EXCEPT
                     ![t].c.result = result,
                     ![t].pc = IF ~IsNone(result) THEN "exit"
                               ELSE IF IsNone(c.locale) THEN "second_locale"
                               ELSE "overload"]
           \/ /\ At(t, "translation", "overload")
              /\ threads' = [threads EXCEPT
                     ![t].c.result = S(attribute_overload(store, c.key.v)),
                     ![t].pc = "exit"]
        /\ UNCHANGED << table_translation, first_locale, second_locale, call, ncalls,
                        fcall, lock >>

(* The body of set_locale under the lock.                                   *)
Thread_set_locale(t) ==
    LET c == threads[t].c
        best_locale == match_best_locale(first_locale, threads[t].local.v)
    IN  /\ \/ /\ At(t, "set_locale", "first")
              /\ first_locale' = IF IsStr(c.first_language) THEN c.first_language.v
                                 ELSE first_locale
              /\ Goto(t, IF IsStr(c.second_language) THEN "second"
                         ELSE IF c.auto_adjust THEN "available_locales"
                         ELSE "exit")
              /\ UNCHANGED second_locale
           \/ /\ At(t, "set_locale", "second")
              /\ second_locale' = c.second_language.v
              /\ Goto(t, "exit")
              /\ UNCHANGED first_locale
           \/ /\ At(t, "set_locale", "adjust")
              /\ second_locale' = IF IsNone(best_locale) THEN en_US ELSE best_locale.v
              /\ Goto(t, "exit")
              /\ UNCHANGED first_locale
        /\ UNCHANGED << table_translation, call, ncalls, fcall, lock >>

(* The body of set_translation under the lock, for one locale.              *)
Thread_set_translation(t) ==
    LET c == threads[t].c
        locale == threads[t].local.v
    IN  /\ \/ /\ At(t, "set_translation", "write")
              /\ IsNone(c.key) \/ IsNone(c.text)
              /\ table_translation' = SetOne(table_translation, first_locale,
                                             S(locale), c.key, c.text)
              /\ Goto(t, "exit")
           \/ /\ At(t, "set_translation", "write")
              /\ ~IsNone(c.key) /\ ~IsNone(c.text)
              /\ table_translation' =
                     IF HasLocale(table_translation, locale) THEN table_translation
                     ELSE Append(table_translation,
                                 [locale |-> locale, bucket |-> EmptyBucket])
              /\ Goto(t, "entry")
           \/ /\ At(t, "set_translation", "entry")
              /\ table_translation' = PutEntry(table_translation, locale,
                                               c.key.v, c.text.v)
              /\ Goto(t, "exit")
        /\ UNCHANGED << first_locale, second_locale, call, ncalls, fcall, lock >>

(* The body of the property available_locales, called from outside.         *)
Thread_available_locales(t) ==
    /\ At(t, "available_locales", "available")
    /\ threads' = [threads EXCEPT
           ![t].c.result = PyList(available_locales(table_translation)),
           ![t].pc = "exit"]
    /\ UNCHANGED << table_translation, first_locale, second_locale, call, ncalls,
                    fcall, lock >>

(* A step of thread t inside its call.                                      *)
Run(t) ==
    \/ With(t)
    \/ Property(t)
    \/ Thread_translation(t)
    \/ Thread_set_locale(t)
    \/ Thread_set_translation(t)
    \/ Thread_available_locales(t)
    \/ Exit(t)

NextThreads ==
    \E t \in Threads : (\E c \in ThreadCalls : Enter(t, c)) \/ Run(t)

SpecThreads == InitThreads /\ [][NextThreads]_vars

(* Fair scheduling: a thread that can take a step again and again does.     *)
SpecThreadsFair == SpecThreads /\ \A t \in Threads : SF_vars(Run(t))

(* Thread t is inside the `with self._lock:` block of its call.             *)
InBody(t) == threads[t].pc \notin {"idle", "with"}

(* Thread t has returned from a call of op.                                 *)
HasReturned(t, op) == threads[t].pc = "idle" /\ threads[t].c.op = op

(* C26: the store operations take effect atomically under the lock: no two *)
(* threads are inside their bodies at once, and a translation returns what  *)
(* the store it found when it took the lock resolves the key to, be that    *)
(* the pair before a concurrent set_locale or the pair after it.            *)
C26_AtomicUnderLock ==
    /\ \A t1, t2 \in Threads : (InBody(t1) /\ InBody(t2)) => t1 = t2
    /\ \A t \in Threads :
           /\ InBody(t) => lock.owner = t
           /\ HasReturned(t, "translation") =>
                  threads[t].c.result
                      = S(translation(threads[t].seen, threads[t].c.key.v,
                                      threads[t].c.locale))
           /\ HasReturned(t, "available_locales") =>
                  threads[t].c.result
                      = PyList(available_locales(threads[t].seen.table))

(* A translation is inside its body while set_locale(zh_CN, zh_HK) of the   *)
(* other thread waits for the lock.                                         *)
C26_Witness ==
    \E t1, t2 \in Threads :
        /\ At(t1, "translation", "second_locale")
        /\ At(t2, "set_locale", "with")
        /\ threads[t2].c.second_language = S(zh_HK)

(* C27: every exit path releases the lock, and under fair scheduling every *)
(* call of every thread returns.                                            *)
C27_EveryCallReturns ==
    /\ []((\A t \in Threads : threads[t].pc = "idle") => lock = NoLock)
    /\ \A t \in Threads : (threads[t].pc # "idle") ~> (threads[t].pc = "idle")

(* A thread holds the lock twice: inside its body and inside a property.    *)
C27_Witness ==
    /\ lock.count = 2
    /\ \E t \in Threads : lock.owner = t /\ threads[t].pc = "return"
====
